---- MODULE Spec2Model ----
(***************************************************************************)
(* Model of the runtime core of GameEngineProject: the object pool and the *)
(* memory manager's typed pools, GameObject and its components, Scene with *)
(* its lookup maps and component caches, and SceneManager with its         *)
(* deferred scene transition.                                              *)
(*                                                                         *)
(* Each subsystem has its own specification (SpecPool, SpecMemory,         *)
(* SpecEntity, SpecScene, SpecSceneManager) over its own variables; the    *)
(* variables of the other subsystems stay at their initial values.         *)
(***************************************************************************)
EXTENDS Integers, Sequences, FiniteSets, TLC

\* nullptr
NULL == 0

(***************************************************************************)
(* Bounds of the model                                                     *)
(***************************************************************************)
\* largest initialCapacity an ObjectPool is constructed with
MaxCapacity == 2
\* largest newCapacity passed to ObjectPool::Reserve
MaxReserve == 3
\* longest sequence of pool operations explored
MaxOps == 5
\* longest sequence of memory-manager operations explored
MaxMemOps == 4
\* most AddComponent<T> calls counted per type T on the entity of SpecEntity
MaxAddCalls == 2
\* number of addresses at which a scene's GameObjects can live
MaxAddr == 2
\* number of GameObjects ever constructed (ids 0 .. MaxId - 1)
MaxId == 2
\* number of components ever attached to the GameObjects of a scene
MaxComps == 2
\* number of addresses at which Scene objects can live
MaxSceneAddr == 2
\* number of scene-changed listeners registered
MaxListeners == 1
\* number of EnqueueTask calls
MaxEnqueue == 2
\* length of the item vector given to ProcessBatch
MaxItems == 3
\* largest batch size given to ProcessBatch (0 asks for the computed one)
MaxBatchSize == 2
\* number of ProcessBatch calls
MaxBatches == 1
\* number of addresses at which Transforms can live
MaxTransforms == 3
\* largest local position and rotation given to a transform
MaxPos == 1
\* calls of Transform's value mutators and world queries in one run
MaxTfCalls == 3
\* threads that call the Engine's lifecycle operations
MaxEngineThreads == 3
\* configurations given to Initialize
MaxConfig == 1
\* admitted calls of Run in one run
MaxRuns == 2

\* the runs of the stop listeners that are followed
MaxStops == 3
\* addresses the allocator hands out
MaxHeapAddr == 3
\* largest size asked of Allocate
MaxSize == 2
\* successful calls of Allocate in one run
MaxAllocs == 4
\* number of behaviors
MaxBehaviors == 1
\* number of Update ticks a behavior receives while active
MaxTicks == 3
\* largest deltaTime, in time units
MaxDt == 4
\* number of frames of the engine main loop
MaxFrames == 5
\* number of cached behaviors of the scene the update system is given
MaxCached == 2
\* number of cached transforms of that scene
MaxCachedTransforms == 1
\* number of frames the update system runs on its thread pool
MaxPoolFrames == 2

\* the width in bits of the model's size_t
SizeBits == 4

\* the objects the heap has room for
HeapLimit == 6

\* the threads that call Reserve on one pool, and the calls each makes
MaxReservers == 2

MaxReserveCalls == 2

VARIABLES
    \* ---- ObjectPool<T> (SpecPool) ----
    opool,      \* the pool object: pool, available, capacity, inUse, totalCreated
    held,       \* pointers handed out by Get and not yet returned (the caller's)
    ops,        \* the operations performed so far, with the counters before each
    \* ---- MemoryManager (SpecMemory) ----
    typePools,       \* type -> its ObjectPool, or NoPool
    defaultPoolSize, \* capacity of pools created on first use
    mmHeld,          \* type -> pointers obtained from its pool and not returned
    prewarmed,       \* type -> the last Preallocate request and what followed it
    mmOps,           \* number of memory-manager operations performed
    \* ---- GameObject and its components (SpecEntity) ----
    go,         \* the entity: id, tag, active, components
    nextCid,    \* the next component address
    hookLog,    \* lifecycle hooks invoked by the last operation, in order
    addCalls,   \* T -> number of AddComponent<T> calls made
    addRets,    \* T -> the components those calls returned
    lastAct,    \* the last operation and its argument
    \* ---- Scene (SpecScene) ----
    heap,       \* address -> the GameObject living there, or NoObject
    scene,      \* objects, objectsByTag, objectsById, componentCachesDirty,
                \* cachedTransforms, cachedBehaviors
    nextId,     \* GameObject::nextId
    nextComp,   \* the next component address
    ownedChanged, \* an entity was added or removed since the last cache query
    \* ---- SceneManager (SpecSceneManager) ----
    sm,         \* the manager: scenes, sceneObjs (the Scene objects), currentScene,
                \* currentSceneName, isTransitioning, nextSceneName,
                \* transitionCallback, sceneChangeCallbacks
    smOut,      \* the last operation: its name, its result, the transition
                \* callbacks and the scene-changed listeners it invoked
    \* ---- ThreadPool (SpecThreadPool) ----
    tasks,       \* the task queue
    activeTasks, \* the atomic counter of tasks taken and not yet finished
    paused,      \* the atomic pause flag
    wpc,         \* worker -> its position in WorkerLoop
    wtask,       \* worker -> the task it has taken, or NoTask
    wpos,        \* worker -> the index of the next item of its chunk
    mpc,         \* the position of the thread that uses the pool
    batch,       \* the ProcessBatch call: items, batch size, chunks submitted,
                 \* futures that are ready, whether it has returned
    calls,       \* item index -> number of invocations of the processor
    nEnq,        \* number of EnqueueTask calls made
    nBatch,      \* number of ProcessBatch calls made
    \* ---- Transform hierarchy (SpecTransform) ----
    tf,          \* address -> the Transform living there, or NoObject
    tfCrashed,   \* a recursion over the hierarchy did not terminate
    tfOut,       \* the last operation and its transform
    tfCalls,     \* calls of the value mutators and world queries so far
    \* ---- Behavior (SpecBehavior) ----
    bh,            \* behavior -> its fields: active, started, cachedTransform
    bhOwner,       \* behavior -> what GetOwner() gives it
    bhStarts,      \* behavior -> number of Start() invocations
    bhActiveTicks, \* behavior -> number of Update ticks made while it was active
    bhLog,         \* the last operation, its behavior and the hooks it invoked
    \* ---- UpdateSystem fixed step, Engine frames (SpecFixedStep) ----
    enabled,                \* UpdateSystem::enabled
    fixedUpdateInterval,    \* UpdateSystem::fixedUpdateInterval, in time units
    fixedUpdateAccumulator, \* UpdateSystem::fixedUpdateAccumulator
    fixedDeltaTime,         \* Engine::fixedDeltaTime
    fxActive,               \* cached behavior of the scene -> its active flag
    fxDriver,               \* who drives the system: an Engine's frames or a caller
    fxFrames,               \* number of frames Engine::UpdateFrame has run
    fxSumDt,                \* sum of the deltaTime measured for these frames
    fxTicks,                \* number of fixed ticks made in these frames
    fxOut,                  \* the last operation, its arguments and what it invoked
    \* ---- UpdateSystem frames on the thread pool (SpecFrame) ----
    useThreading,  \* UpdateSystem::useThreading
    frPc,          \* where the main thread is in the frame
    frPos,         \* index i of the submission loop of the main thread's ProcessBatch
    frQueue,       \* ThreadPool::tasks of the update system's pool
    frWorker,      \* worker -> what it is doing
    frLeft,        \* batch -> chunk tasks submitted and not yet completed
    frOuterDone,   \* the outer tasks of UpdateMultiThreaded whose future is ready
    frFrame,       \* number of frames completed
    frT,           \* cached transform -> Update invocations it received
    frU,           \* cached behavior -> Update (OnUpdate) invocations it received
    frL,           \* cached behavior -> OnLateUpdate invocations it received
    frF,           \* cached behavior -> OnFixedUpdate invocations it received
    \* ---- Engine ----
    state,        \* Engine::state, an atomic EngineState
    config,       \* Engine::config
    initialized,  \* SystemManager::initialized: the update system exists
    epc,          \* where each thread is in its Engine call
    inUpdate,     \* the threads inside SystemManager::UpdateSystems
    tornFrame,    \* the update system was destroyed under a running frame
    shutdownDone, \* a Shutdown has completed and no Initialize has begun since
    startCalls,   \* calls of TriggerStartCallbacks so far
    engOut,       \* the last admission decision: operation and outcome
    \* ---- MemoryManager allocation tracking ----
    blocks,           \* the blocks the allocator has handed out: address -> size
    allocationSizes,  \* MemoryManager::allocationSizes
    trackAllocations, \* MemoryManager::trackAllocations
    stats,            \* MemoryManager::stats
    allocOut,         \* the last call and the pointer it returned or was given
    \* ---- calls on a Scene and what they returned ----
    sceneOut,     \* the last call: operation, argument, result, listener invocations
    \* ---- ObjectPool<T>::Reserve called from several threads ----
    cpool,            \* the shared pool object
    rpc,              \* per calling thread: its position in Reserve
    rarg,             \* per calling thread: newCapacity of its call
    rcalls,           \* per calling thread: the calls it has made
    rsvOut,           \* the call that returned last: what it asked for and created
    \* ---- Engine stop listeners ----
    stopCalls         \* the times TriggerStopCallbacks has run

poolVars == <<opool, held, ops>>
memVars == <<typePools, defaultPoolSize, mmHeld, prewarmed, mmOps>>

entVars == <<go, nextCid, hookLog, addCalls, addRets, lastAct>>

sceneVars == <<heap, scene, nextId, nextComp, ownedChanged>>
smVars == <<sm, smOut>>
tpVars == <<tasks, activeTasks, paused, wpc, wtask, wpos, mpc, batch, calls, nEnq, nBatch>>
tfVars == <<tf, tfCrashed, tfOut, tfCalls>>
bhVars == <<bh, bhOwner, bhStarts, bhActiveTicks, bhLog>>
fxVars == <<enabled, fixedUpdateInterval, fixedUpdateAccumulator, fixedDeltaTime, fxActive, fxDriver, fxFrames, fxSumDt, fxTicks, fxOut>>
frVars == <<useThreading, frPc, frPos, frQueue, frWorker, frLeft, frOuterDone, frFrame, frT, frU, frL, frF>>
engVars == <<state, config, initialized, epc, inUpdate, tornFrame, shutdownDone, startCalls, engOut>>
allocVars == <<blocks, allocationSizes, trackAllocations, stats, allocOut>>
scOutVars == <<sceneOut>>
rsvVars == <<cpool, rpc, rarg, rcalls, rsvOut>>
engStopVars == <<stopCalls>>

vars == <<opool, held, ops, typePools, defaultPoolSize, mmHeld, prewarmed, mmOps,
          go, nextCid, hookLog, addCalls, addRets, lastAct,
          heap, scene, nextId, nextComp, ownedChanged,
          sm, smOut,
          tasks, activeTasks, paused, wpc, wtask, wpos, mpc, batch, calls, nEnq, nBatch,
          tf, tfCrashed, tfOut, tfCalls,
          bh, bhOwner, bhStarts, bhActiveTicks, bhLog,
          enabled, fixedUpdateInterval, fixedUpdateAccumulator, fixedDeltaTime, fxActive, fxDriver, fxFrames, fxSumDt, fxTicks, fxOut,
          useThreading, frPc, frPos, frQueue, frWorker, frLeft, frOuterDone, frFrame, frT, frU, frL, frF,
          state, config, initialized, epc, inUpdate, tornFrame, shutdownDone, startCalls, engOut,
          blocks, allocationSizes, trackAllocations, stats, allocOut,
          sceneOut,
          cpool, rpc, rarg, rcalls, rsvOut,
          stopCalls>>

(***************************************************************************)
(* ObjectPool<T>                                                           *)
(* A pointer is the position of its object in the backing vector `pool`:   *)
(* backing objects are never freed while the pool lives, so positions are  *)
(* distinct addresses.                                                     *)
(***************************************************************************)

\* pointers base+1 .. base+n, in creation order
NewObjects(base, n) == [i \in 1..n |-> base + i]

\* ObjectPool(size_t initialCapacity)
MakePool(initialCapacity) ==
    [ pool         |-> NewObjects(0, initialCapacity),
      available    |-> NewObjects(0, initialCapacity),
      capacity     |-> initialCapacity,
      inUse        |-> 0,
      totalCreated |-> initialCapacity ]

\* Get that takes the most recently returned pointer (back of the free list)
PoolGet_TakesBack(p) ==
    IF p.available = <<>>
    THEN [ pool |-> [p EXCEPT !.pool = Append(@, Len(@) + 1),
                              !.totalCreated = @ + 1,
                              !.inUse = @ + 1],
           ptr  |-> Len(p.pool) + 1 ]
    ELSE [ pool |-> [p EXCEPT !.available = SubSeq(@, 1, Len(@) - 1),
                              !.inUse = @ + 1],
           ptr  |-> p.available[Len(p.available)] ]

\* T* Get(): the pool afterwards and the pointer returned
PoolGet(p) ==
    IF p.available = <<>>
    THEN [ pool |-> [p EXCEPT !.pool = Append(@, Len(@) + 1),
                              !.totalCreated = @ + 1,
                              !.inUse = @ + 1],
           ptr  |-> Len(p.pool) + 1 ]
    ELSE [ pool |-> [p EXCEPT !.available = Tail(@),
                              !.inUse = @ + 1],
           ptr  |-> Head(p.available) ]

\* Return that forgets to decrement inUse
PoolReturn_NoDecrement(p, obj) ==
    IF obj = NULL
    THEN p
    ELSE [p EXCEPT !.available = Append(@, obj)]

\* void Return(T* obj)
PoolReturn(p, obj) ==
    IF obj = NULL
    THEN p
    ELSE [p EXCEPT !.available = Append(@, obj), !.inUse = @ - 1]

\* Reserve that sets totalCreated to the new capacity instead of adding to it
PoolReserve_SetsTotal(p, newCapacity) ==
    IF newCapacity <= p.capacity
    THEN p
    ELSE LET toCreate == newCapacity - p.capacity
             fresh    == NewObjects(Len(p.pool), toCreate)
         IN  [p EXCEPT !.pool = @ \o fresh,
                       !.available = @ \o fresh,
                       !.capacity = newCapacity,
                       !.totalCreated = newCapacity]

\* void Reserve(size_t newCapacity)
PoolReserve(p, newCapacity) ==
    IF newCapacity <= p.capacity
    THEN p
    ELSE LET toCreate == newCapacity - p.capacity
             fresh    == NewObjects(Len(p.pool), toCreate)
         IN  [p EXCEPT !.pool = @ \o fresh,
                       !.available = @ \o fresh,
                       !.capacity = newCapacity,
                       !.totalCreated = @ + toCreate]

\* the values of size_t
SizeMax == 2 ^ SizeBits

\* Reserve below its early return, run under poolMutex: the subtraction is
\* unsigned; make_unique throws bad_alloc when the heap is full, which
\* leaves the loop before capacity and totalCreated are written
ReserveLocked(p, newCapacity) ==
    LET toCreate == (newCapacity - p.capacity) % SizeMax
        room     == HeapLimit - Len(p.pool)
    IN  IF toCreate > room
        THEN [ pool  |-> [p EXCEPT !.pool = @ \o NewObjects(Len(p.pool), room),
                                   !.available = @ \o NewObjects(Len(p.pool), room)],
               made  |-> room,
               threw |-> TRUE ]
        ELSE [ pool  |-> [p EXCEPT !.pool = @ \o NewObjects(Len(p.pool), toCreate),
                                   !.available = @ \o NewObjects(Len(p.pool), toCreate),
                                   !.capacity = newCapacity,
                                   !.totalCreated = @ + toCreate],
               made  |-> toCreate,
               threw |-> FALSE ]

GetInUse(p) == p.inUse
GetAvailable(p) == Len(p.available)
GetTotalCreated(p) == p.totalCreated

\* one entry of the operation history
OpEntry(name, arg, p) ==
    [ op |-> name, arg |-> arg,
      preInUse |-> GetInUse(p), preTotal |-> GetTotalCreated(p),
      preAvailable |-> GetAvailable(p), preCapacity |-> p.capacity ]

PoolInit ==
    /\ \E c \in 0..MaxCapacity : opool = MakePool(c)
    /\ held = {}
    /\ ops = <<>>

Get ==
    /\ Len(ops) < MaxOps
    /\ LET g == PoolGet(opool)
       IN  /\ opool' = g.pool
           /\ held' = held \cup {g.ptr}
           /\ ops' = Append(ops, OpEntry("Get", g.ptr, opool))

\* Return of a pointer this pool handed out, or of nullptr
Return ==
    /\ Len(ops) < MaxOps
    /\ \E obj \in held \cup {NULL} :
          /\ opool' = PoolReturn(opool, obj)
          /\ held' = held \ {obj}
          /\ ops' = Append(ops, OpEntry("Return", obj, opool))

Reserve ==
    /\ Len(ops) < MaxOps
    /\ \E n \in 0..MaxReserve :
          /\ opool' = PoolReserve(opool, n)
          /\ ops' = Append(ops, OpEntry("Reserve", n, opool))
          /\ UNCHANGED held


(***************************************************************************)
(* MemoryManager: the type-indexed pools.                                  *)
(* useObjectPools keeps its initial value true here, so GetFromPool and    *)
(* ReturnToPool take the pooled path.                                      *)
(***************************************************************************)

\* the types whose pools are used
PoolTypes == {"Component", "GameObject", "Transform"}

\* no entry in typePools
NoPool == [ absent |-> TRUE ]

\* size_t defaultPoolSize = 100
DefaultPoolSize == 100

\* counts passed to PreallocateGameObjects / PreallocateComponents
PreallocCounts == {1, DefaultPoolSize, DefaultPoolSize + 1}

\* sizes passed to SetDefaultPoolSize
PoolSizes == {0, 1}

\* typePools after GetOrCreatePool<T>(capacity)
GetOrCreatePool(pools, defSize, T, capacity) ==
    IF pools[T] = NoPool
    THEN [pools EXCEPT ![T] = MakePool(IF capacity > 0 THEN capacity ELSE defSize)]
    ELSE pools

\* CreatePool<T>(capacity)
CreatePool(pools, defSize, T, capacity) == GetOrCreatePool(pools, defSize, T, capacity)

\* InitializePools(), called by the constructor
InitializePools(pools, defSize) ==
    CreatePool(CreatePool(pools, defSize, "Component", defSize),
               defSize, "GameObject", defSize \div 2)

NoPrewarm == [ n |-> 0, total |-> 0, peak |-> 0 ]

\* the largest inUse seen since the last Preallocate of each type
TrackPeak(pw, pools) ==
    [ T \in PoolTypes |->
        IF pw[T].n > 0 /\ pools[T] # NoPool /\ GetInUse(pools[T]) > pw[T].peak
        THEN [pw[T] EXCEPT !.peak = GetInUse(pools[T])]
        ELSE pw[T] ]

MemInit ==
    /\ defaultPoolSize = DefaultPoolSize
    /\ typePools = InitializePools([T \in PoolTypes |-> NoPool], DefaultPoolSize)
    /\ mmHeld = [T \in PoolTypes |-> {}]
    /\ prewarmed = [T \in PoolTypes |-> NoPrewarm]
    /\ mmOps = 0

\* what a Preallocate call of type T leaves behind
Preallocate(T, count) ==
    LET pools == CreatePool(typePools, defaultPoolSize, T, count)
    IN  /\ typePools' = pools
        /\ prewarmed' = [prewarmed EXCEPT ![T] =
                            [ n |-> count, total |-> GetTotalCreated(pools[T]),
                              peak |-> GetInUse(pools[T]) ]]
        /\ mmOps' = mmOps + 1
        /\ UNCHANGED <<defaultPoolSize, mmHeld>>

PreallocateGameObjects ==
    /\ mmOps < MaxMemOps
    /\ \E count \in PreallocCounts : Preallocate("GameObject", count)

PreallocateComponents ==
    /\ mmOps < MaxMemOps
    /\ \E count \in PreallocCounts : Preallocate("Component", count)

GetFromPool ==
    /\ mmOps < MaxMemOps
    /\ \E T \in PoolTypes :
          LET pools == GetOrCreatePool(typePools, defaultPoolSize, T, 0)
              g     == PoolGet(pools[T])
              after == [pools EXCEPT ![T] = g.pool]
          IN  /\ typePools' = after
              /\ mmHeld' = [mmHeld EXCEPT ![T] = @ \cup {g.ptr}]
              /\ prewarmed' = TrackPeak(prewarmed, after)
              /\ mmOps' = mmOps + 1
              /\ UNCHANGED defaultPoolSize

\* ReturnToPool of a pointer obtained from the pool of its type, or of nullptr
ReturnToPool ==
    /\ mmOps < MaxMemOps
    /\ \E T \in PoolTypes :
          \E obj \in mmHeld[T] \cup {NULL} :
             LET pools == IF obj = NULL
                          THEN typePools
                          ELSE GetOrCreatePool(typePools, defaultPoolSize, T, 0)
             IN  /\ typePools' = IF obj = NULL
                                 THEN typePools
                                 ELSE [pools EXCEPT ![T] = PoolReturn(@, obj)]
                 /\ mmHeld' = [mmHeld EXCEPT ![T] = @ \ {obj}]
                 /\ mmOps' = mmOps + 1
                 /\ UNCHANGED <<defaultPoolSize, prewarmed>>

SetDefaultPoolSize ==
    /\ mmOps < MaxMemOps
    /\ \E size \in PoolSizes :
          /\ defaultPoolSize' = size
          /\ mmOps' = mmOps + 1
          /\ UNCHANGED <<typePools, mmHeld, prewarmed>>


(***************************************************************************)
(* Component and GameObject                                                *)
(* A component is [cid, type, active]: its address, its dynamic type and   *)
(* Component::active.  A GameObject is [id, tag, active, components].      *)
(***************************************************************************)

\* the component classes, and the base class of each
CompTypes == {"Component", "Transform", "Behavior", "TestBehavior"}

BaseOf(t) ==
    CASE t = "Transform"    -> "Component"
      [] t = "Behavior"     -> "Component"
      [] t = "TestBehavior" -> "Behavior"
      [] OTHER              -> "none"

\* dynamic_cast<T*>(c) != nullptr: the dynamic type t is T or derives from T
IsOfType(t, T) ==
    \/ t = T
    \/ BaseOf(t) = T
    \/ BaseOf(t) # "none" /\ BaseOf(BaseOf(t)) = T

\* typeid(*c) == typeid(T)
IsExactType(t, T) == t = T

\* GameObject(tag): a new entity with the given id
NewGameObject(id, tag) ==
    [ id |-> id, tag |-> tag, active |-> TRUE, components |-> <<>> ]

\* positions of the components that are a T
Matching(g, T) ==
    { i \in 1..Len(g.components) : IsOfType(g.components[i].type, T) }

\* smallest element of a non-empty set of integers
Min(S) == CHOOSE x \in S : \A y \in S : x <= y

\* GetComponent<T>(): the first component that is a T, or nullptr
GetComponent(g, T) ==
    IF Matching(g, T) = {} THEN NULL ELSE g.components[Min(Matching(g, T))].cid

\* AddComponent<T>(): the entity afterwards, the pointer returned, whether a
\* component was created (at address cid) and the hooks invoked
AddComponentT(g, T, cid) ==
    IF GetComponent(g, T) # NULL
    THEN [ obj |-> g, ret |-> GetComponent(g, T), created |-> FALSE, hooks |-> <<>> ]
    ELSE [ obj     |-> [g EXCEPT !.components =
                              Append(@, [cid |-> cid, type |-> T, active |-> TRUE])],
           ret     |-> cid,
           created |-> TRUE,
           hooks   |-> IF g.active THEN << <<"OnEnable", cid>> >> ELSE <<>> ]

\* the hook invoked on each component of cs whose active flag is set
RECURSIVE NotifyActive(_, _)
NotifyActive(cs, hook) ==
    IF cs = <<>> THEN <<>>
    ELSE (IF Head(cs).active THEN << <<hook, Head(cs).cid>> >> ELSE <<>>)
            \o NotifyActive(Tail(cs), hook)

\* SetActive that notifies every component, whatever its own flag
GameObjectSetActive_NotifiesAll(g, isActive) ==
    IF g.active = isActive
    THEN [ obj |-> g, hooks |-> <<>> ]
    ELSE [ obj   |-> [g EXCEPT !.active = isActive],
           hooks |-> [ i \in 1..Len(g.components) |->
                         <<IF isActive THEN "OnEnable" ELSE "OnDisable",
                           g.components[i].cid>> ] ]

\* GameObject::SetActive(isActive): the entity afterwards and the hooks invoked
GameObjectSetActive(g, isActive) ==
    IF g.active = isActive
    THEN [ obj |-> g, hooks |-> <<>> ]
    ELSE [ obj   |-> [g EXCEPT !.active = isActive],
           hooks |-> NotifyActive(g.components,
                                  IF isActive THEN "OnEnable" ELSE "OnDisable") ]

\* GameObject::SetTag(newTag)
GameObjectSetTag(g, newTag) == [g EXCEPT !.tag = newTag]

\* the hooks of EnableAllComponents
RECURSIVE EnableHooks(_, _)
EnableHooks(cs, ownerActive) ==
    IF cs = <<>> THEN <<>>
    ELSE (IF ~Head(cs).active /\ ownerActive
          THEN << <<"OnEnable", Head(cs).cid>> >> ELSE <<>>)
            \o EnableHooks(Tail(cs), ownerActive)

\* GameObject::EnableAllComponents()
EnableAll(g) ==
    [ obj   |-> [g EXCEPT !.components =
                    [i \in 1..Len(@) |-> [@[i] EXCEPT !.active = TRUE]]],
      hooks |-> EnableHooks(g.components, g.active) ]

\* GameObject::DisableAllComponents()
DisableAll(g) ==
    [ obj   |-> [g EXCEPT !.components =
                    [i \in 1..Len(@) |-> [@[i] EXCEPT !.active = FALSE]]],
      hooks |-> NotifyActive(g.components, "OnDisable") ]

\* q without its element at position i
RemoveAt(q, i) == SubSeq(q, 1, i - 1) \o SubSeq(q, i + 1, Len(q))

\* RemoveComponent<T>(): the first component that is a T is told OnDestroy
\* and erased
RemoveComponentT(g, T) ==
    IF Matching(g, T) = {}
    THEN [ obj |-> g, ret |-> FALSE, hooks |-> <<>> ]
    ELSE LET i == Min(Matching(g, T))
         IN  [ obj   |-> [g EXCEPT !.components = RemoveAt(@, i)],
               ret   |-> TRUE,
               hooks |-> << <<"OnDestroy", g.components[i].cid>> >> ]

\* the components of cs that are not a T, in order
RECURSIVE NotOfType(_, _)
NotOfType(cs, T) ==
    IF cs = <<>> THEN <<>>
    ELSE (IF IsOfType(Head(cs).type, T) THEN <<>> ELSE <<Head(cs)>>)
            \o NotOfType(Tail(cs), T)

\* the OnDestroy calls of RemoveComponents<T>(), in order
RECURSIVE DestroyHooks(_, _)
DestroyHooks(cs, T) ==
    IF cs = <<>> THEN <<>>
    ELSE (IF IsOfType(Head(cs).type, T) THEN << <<"OnDestroy", Head(cs).cid>> >> ELSE <<>>)
            \o DestroyHooks(Tail(cs), T)

\* RemoveComponents<T>(): every component that is a T is told OnDestroy and
\* erased; the result is their number
RemoveComponentsT(g, T) ==
    [ obj   |-> [g EXCEPT !.components = NotOfType(@, T)],
      ret   |-> Cardinality(Matching(g, T)),
      hooks |-> DestroyHooks(g.components, T) ]

\* the positions of the component at address cid
PositionsOf(g, cid) == { i \in 1..Len(g.components) : g.components[i].cid = cid }

\* GameObject::RemoveComponent(Component*)
RemoveComponentPtr(g, cid) ==
    IF cid = NULL \/ PositionsOf(g, cid) = {}
    THEN [ obj |-> g, ret |-> FALSE, hooks |-> <<>> ]
    ELSE [ obj   |-> [g EXCEPT !.components = RemoveAt(@, Min(PositionsOf(g, cid)))],
           ret   |-> TRUE,
           hooks |-> << <<"OnDisable", cid>>, <<"OnDestroy", cid>> >> ]

\* ~GameObject(): defaulted, the components are deleted with no hook called
DestroyGameObjectHooks(g) == <<>>

EntInit ==
    /\ go = NewGameObject(0, "")
    /\ nextCid = 1
    /\ hookLog = <<>>
    /\ addCalls = [T \in CompTypes |-> 0]
    /\ addRets = [T \in CompTypes |-> {}]
    /\ lastAct = [op |-> "none", arg |-> NULL]

\* an entity after AddComponent<Transform>, <Behavior> and <TestBehavior>
EntPopulated ==
    /\ go = [ NewGameObject(0, "") EXCEPT !.components =
                 << [cid |-> 1, type |-> "Transform", active |-> TRUE],
                    [cid |-> 2, type |-> "Behavior", active |-> TRUE],
                    [cid |-> 3, type |-> "TestBehavior", active |-> TRUE] >> ]
    /\ nextCid = 4
    /\ hookLog = << <<"OnEnable", 3>> >>
    /\ addCalls = [T \in CompTypes |-> IF T = "Component" THEN 0 ELSE 1]
    /\ addRets = [T \in CompTypes |-> IF T = "Transform" THEN {1}
                                       ELSE IF T = "Behavior" THEN {2}
                                       ELSE IF T = "TestBehavior" THEN {3} ELSE {}]
    /\ lastAct = [op |-> "AddComponent", arg |-> "TestBehavior"]

AddComponent ==
    \E T \in CompTypes :
        /\ addCalls[T] < MaxAddCalls
        /\ LET r == AddComponentT(go, T, nextCid)
           IN  /\ go' = r.obj
               /\ nextCid' = IF r.created THEN nextCid + 1 ELSE nextCid
               /\ hookLog' = r.hooks
               /\ addCalls' = [addCalls EXCEPT ![T] = @ + 1]
               /\ addRets' = [addRets EXCEPT ![T] = @ \cup {r.ret}]
               /\ lastAct' = [op |-> "AddComponent", arg |-> T]

RemoveComponentOfType ==
    \E T \in CompTypes :
        LET r == RemoveComponentT(go, T)
        IN  /\ go' = r.obj
            /\ hookLog' = r.hooks
            /\ lastAct' = [op |-> "RemoveComponent<T>", arg |-> T]
            /\ UNCHANGED <<nextCid, addCalls, addRets>>

RemoveComponentsOfType ==
    \E T \in CompTypes :
        LET r == RemoveComponentsT(go, T)
        IN  /\ go' = r.obj
            /\ hookLog' = r.hooks
            /\ lastAct' = [op |-> "RemoveComponents<T>", arg |-> T]
            /\ UNCHANGED <<nextCid, addCalls, addRets>>

RemoveComponentByPointer ==
    \E cid \in 0..(nextCid - 1) :
        LET r == RemoveComponentPtr(go, cid)
        IN  /\ go' = r.obj
            /\ hookLog' = r.hooks
            /\ lastAct' = [op |-> "RemoveComponent", arg |-> cid]
            /\ UNCHANGED <<nextCid, addCalls, addRets>>

\* the entity is destroyed and another is constructed
DestroyEntity ==
    /\ go.components # <<>>
    /\ hookLog' = DestroyGameObjectHooks(go)
    /\ go' = NewGameObject(0, "")
    /\ lastAct' = [op |-> "~GameObject", arg |-> NULL]
    /\ UNCHANGED <<nextCid, addCalls, addRets>>

SetActive ==
    \E isActive \in BOOLEAN :
        LET r == GameObjectSetActive(go, isActive)
        IN  /\ go' = r.obj
            /\ hookLog' = r.hooks
            /\ lastAct' = [op |-> "SetActive", arg |-> isActive]
            /\ UNCHANGED <<nextCid, addCalls, addRets>>

\* Component::SetActive(isActive) on one of the entity's components
ComponentSetActive ==
    \E i \in 1..Len(go.components), isActive \in BOOLEAN :
        /\ go' = [go EXCEPT !.components[i].active = isActive]
        /\ hookLog' = <<>>
        /\ lastAct' = [op |-> "ComponentSetActive", arg |-> go.components[i].cid]
        /\ UNCHANGED <<nextCid, addCalls, addRets>>

EnableAllComponents ==
    /\ go' = EnableAll(go).obj
    /\ hookLog' = EnableAll(go).hooks
    /\ lastAct' = [op |-> "EnableAllComponents", arg |-> NULL]
    /\ UNCHANGED <<nextCid, addCalls, addRets>>

DisableAllComponents ==
    /\ go' = DisableAll(go).obj
    /\ hookLog' = DisableAll(go).hooks
    /\ lastAct' = [op |-> "DisableAllComponents", arg |-> NULL]
    /\ UNCHANGED <<nextCid, addCalls, addRets>>

(***************************************************************************)
(* Scene                                                                   *)
(* A GameObject pointer is the address of the object.  An address is free  *)
(* again once its object is destroyed, and a later object may be placed at *)
(* any free address, so a pointer kept past the destruction of its object  *)
(* may come to equal the pointer of a later object.                        *)
(***************************************************************************)

Addrs == 1..MaxAddr

\* the tags entities are given
Tags == {"", "a"}

\* the tags looked up: those given, and one that no entity ever has
QueryTags == Tags \cup {"c"}

\* the component types attached to the entities of a scene
SceneCompTypes == {"Transform", "Behavior", "TestBehavior"}

NoObject == [ freed |-> TRUE ]

\* the elements of a sequence
Range(q) == { q[i] : i \in 1..Len(q) }

\* position of the first occurrence of x in q (x occurs in q)
IndexOf(q, x) == Min({ i \in 1..Len(q) : q[i] = x })

\* unordered_map: m[k] = v, find(k) == end(), erase(k)
MapPut(m, k, v) == [ x \in DOMAIN m \cup {k} |-> IF x = k THEN v ELSE m[x] ]
MapHas(m, k) == k \in DOMAIN m
MapErase(m, k) == [ x \in DOMAIN m \ {k} |-> m[x] ]
EmptyMap == [ x \in {} |-> NULL ]

\* Scene(name)
NewScene ==
    [ objects              |-> <<>>,
      objectsByTag         |-> EmptyMap,
      objectsById          |-> EmptyMap,
      componentCachesDirty |-> TRUE,
      cachedTransforms     |-> <<>>,
      cachedBehaviors      |-> <<>>,
      gameObjectDestroyedCallbacks |-> <<>> ]

\* Scene::FindGameObjectsWithTag
FindGameObjectsWithTag(sc, tag) ==
    IF MapHas(sc.objectsByTag, tag) THEN sc.objectsByTag[tag] ELSE <<>>

\* Scene::FindGameObjectWithTag
FindGameObjectWithTag(sc, tag) ==
    IF MapHas(sc.objectsByTag, tag) /\ sc.objectsByTag[tag] # <<>>
    THEN sc.objectsByTag[tag][1]
    ELSE NULL

\* Scene::FindGameObjectById
FindGameObjectById(sc, id) ==
    IF MapHas(sc.objectsById, id) THEN sc.objectsById[id] ELSE NULL

\* Scene::UpdateLookupMaps for the object g at address ptr
UpdateLookupMaps(sc, g, ptr) ==
    [sc EXCEPT !.objectsById = MapPut(@, g.id, ptr),
               !.objectsByTag = MapPut(@, g.tag,
                                       Append(FindGameObjectsWithTag(sc, g.tag), ptr))]

\* Scene::RemoveFromLookupMaps for the object g at address ptr
RemoveFromLookupMaps(sc, g, ptr) ==
    LET tagVector == FindGameObjectsWithTag(sc, g.tag)
        erased    == RemoveAt(tagVector, IndexOf(tagVector, ptr))
    IN  [sc EXCEPT !.objectsById = MapErase(@, g.id),
                   !.objectsByTag =
                        IF ptr \in Range(tagVector)
                        THEN IF erased = <<>>
                             THEN MapErase(@, g.tag)
                             ELSE MapPut(@, g.tag, erased)
                        ELSE MapPut(@, g.tag, tagVector)]

\* MarkComponentCachesDirty
MarkComponentCachesDirty(sc) == [sc EXCEPT !.componentCachesDirty = TRUE]

\* AddGameObject that leaves the caches marked as they were
SceneAddGameObject_KeepsCaches(w, g, ptr) ==
    [ heap  |-> [w.heap EXCEPT ![ptr] = g],
      scene |-> UpdateLookupMaps([w.scene EXCEPT !.objects = Append(@, ptr)], g, ptr) ]

\* Scene::AddGameObject of the (non-null) object g placed at address ptr
SceneAddGameObject(w, g, ptr) ==
    [ heap  |-> [w.heap EXCEPT ![ptr] = g],
      scene |-> MarkComponentCachesDirty(
                   UpdateLookupMaps([w.scene EXCEPT !.objects = Append(@, ptr)], g, ptr)) ]

\* Scene::OnGameObjectDestroyed: the listeners are numbered as registered
SceneOnGameObjectDestroyed(sc) ==
    [sc EXCEPT !.gameObjectDestroyedCallbacks = Append(@, Len(@) + 1)]

\* Scene::TriggerGameObjectDestroyed: the listener invocations, in order
TriggerGameObjectDestroyed(sc, ptr) ==
    [ i \in 1..Len(sc.gameObjectDestroyedCallbacks) |->
        <<sc.gameObjectDestroyedCallbacks[i], ptr>> ]

\* DestroyGameObject that marks the caches dirty before it looks for the object
SceneDestroyGameObject_MarksFirst(w, ptr) ==
    IF ptr = NULL \/ ptr \notin Range(w.scene.objects)
    THEN [ heap |-> w.heap, scene |-> MarkComponentCachesDirty(w.scene),
           ret |-> FALSE, events |-> <<>> ]
    ELSE [ heap  |-> [w.heap EXCEPT ![ptr] = NoObject],
           scene |-> MarkComponentCachesDirty(
                        [ RemoveFromLookupMaps(w.scene, w.heap[ptr], ptr)
                            EXCEPT !.objects = RemoveAt(@, IndexOf(@, ptr)) ]),
           ret   |-> TRUE,
           events |-> TriggerGameObjectDestroyed(w.scene, ptr) ]

\* Scene::DestroyGameObject(GameObject*): the world afterwards, the result
\* and the listener invocations
SceneDestroyGameObject(w, ptr) ==
    IF ptr = NULL \/ ptr \notin Range(w.scene.objects)
    THEN [ heap |-> w.heap, scene |-> w.scene, ret |-> FALSE, events |-> <<>> ]
    ELSE [ heap  |-> [w.heap EXCEPT ![ptr] = NoObject],
           scene |-> MarkComponentCachesDirty(
                        [ RemoveFromLookupMaps(w.scene, w.heap[ptr], ptr)
                            EXCEPT !.objects = RemoveAt(@, IndexOf(@, ptr)) ]),
           ret   |-> TRUE,
           events |-> TriggerGameObjectDestroyed(w.scene, ptr) ]

\* Scene::DestroyGameObject(size_t id)
SceneDestroyGameObjectById(w, id) ==
    IF MapHas(w.scene.objectsById, id)
    THEN SceneDestroyGameObject(w, w.scene.objectsById[id])
    ELSE [ heap |-> w.heap, scene |-> w.scene, ret |-> FALSE, events |-> <<>> ]

\* DestroyGameObject on each pointer of a list, in order
RECURSIVE DestroyEach(_, _)
DestroyEach(w, ptrs) ==
    IF ptrs = <<>>
    THEN w
    ELSE LET d == SceneDestroyGameObject(w, Head(ptrs))
         IN  DestroyEach([heap |-> d.heap, scene |-> d.scene], Tail(ptrs))

\* Scene::DestroyGameObjectsWithTag
SceneDestroyGameObjectsWithTag(w, tag) ==
    DestroyEach(w, FindGameObjectsWithTag(w.scene, tag))

\* Scene::DestroyAllGameObjects
SceneDestroyAllGameObjects(w) ==
    [ heap  |-> [ a \in Addrs |-> IF a \in Range(w.scene.objects)
                                  THEN NoObject ELSE w.heap[a] ],
      scene |-> MarkComponentCachesDirty(
                   [w.scene EXCEPT !.objects = <<>>,
                                   !.objectsByTag = EmptyMap,
                                   !.objectsById = EmptyMap]) ]

\* the components of cs that are a T, in order
RECURSIVE ComponentsOfType(_, _)
ComponentsOfType(cs, T) ==
    IF cs = <<>> THEN <<>>
    ELSE (IF IsOfType(Head(cs).type, T) THEN <<Head(cs).cid>> ELSE <<>>)
            \o ComponentsOfType(Tail(cs), T)

\* the Transform pointers RefreshComponentCaches collects from the objects
RECURSIVE CollectTransforms(_, _)
CollectTransforms(hp, objects) ==
    IF objects = <<>> THEN <<>>
    ELSE LET g == hp[Head(objects)]
         IN  (IF g.active /\ GetComponent(g, "Transform") # NULL
              THEN <<GetComponent(g, "Transform")>> ELSE <<>>)
                \o CollectTransforms(hp, Tail(objects))

\* the Behavior pointers RefreshComponentCaches collects from the objects
RECURSIVE CollectBehaviors(_, _)
CollectBehaviors(hp, objects) ==
    IF objects = <<>> THEN <<>>
    ELSE LET g == hp[Head(objects)]
         IN  (IF g.active THEN ComponentsOfType(g.components, "Behavior") ELSE <<>>)
                \o CollectBehaviors(hp, Tail(objects))

\* Scene::RefreshComponentCaches
RefreshComponentCaches(hp, sc) ==
    [sc EXCEPT !.cachedTransforms = CollectTransforms(hp, sc.objects),
               !.cachedBehaviors = CollectBehaviors(hp, sc.objects),
               !.componentCachesDirty = FALSE]

\* the scene after GetAllTransforms() or GetAllBehaviors()
SceneGetAll(hp, sc) ==
    IF sc.componentCachesDirty THEN RefreshComponentCaches(hp, sc) ELSE sc

SceneInit ==
    /\ heap = [a \in Addrs |-> NoObject]
    /\ scene = NewScene
    /\ nextId = 0
    /\ nextComp = 1
    /\ ownedChanged = FALSE

World == [heap |-> heap, scene |-> scene]

\* the addresses of the objects the scene owns
Owned == Range(scene.objects)

\* the owned sequence changed in this step
OwnedChangedNow(newObjects) == ownedChanged \/ newObjects # scene.objects

CreateGameObject ==
    /\ nextId < MaxId
    /\ \E tag \in Tags, ptr \in Addrs :
          /\ heap[ptr] = NoObject
          /\ LET w == SceneAddGameObject(World, NewGameObject(nextId, tag), ptr)
             IN  /\ heap' = w.heap
                 /\ scene' = w.scene
                 /\ ownedChanged' = OwnedChangedNow(w.scene.objects)
          /\ nextId' = nextId + 1
          /\ UNCHANGED nextComp

\* AddGameObject of an object constructed elsewhere (active or already
\* deactivated there)
AddGameObject ==
    /\ nextId < MaxId
    /\ \E tag \in Tags, isActive \in BOOLEAN, ptr \in Addrs :
          /\ heap[ptr] = NoObject
          /\ LET g == GameObjectSetActive(NewGameObject(nextId, tag), isActive).obj
                 w == SceneAddGameObject(World, g, ptr)
             IN  /\ heap' = w.heap
                 /\ scene' = w.scene
                 /\ ownedChanged' = OwnedChangedNow(w.scene.objects)
          /\ nextId' = nextId + 1
          /\ UNCHANGED nextComp

\* AddGameObject(nullptr)
AddGameObjectNull ==
    UNCHANGED <<heap, scene, nextId, nextComp, ownedChanged>>

\* DestroyGameObject on any pointer: owned, dangling or null
DestroyGameObject ==
    \E ptr \in Addrs \cup {NULL} :
        LET d == SceneDestroyGameObject(World, ptr)
        IN  /\ heap' = d.heap
            /\ scene' = d.scene
            /\ ownedChanged' = OwnedChangedNow(d.scene.objects)
            /\ UNCHANGED <<nextId, nextComp>>

DestroyGameObjectById ==
    \E id \in 0..(MaxId - 1) :
        LET d == SceneDestroyGameObjectById(World, id)
        IN  /\ heap' = d.heap
            /\ scene' = d.scene
            /\ ownedChanged' = OwnedChangedNow(d.scene.objects)
            /\ UNCHANGED <<nextId, nextComp>>

DestroyGameObjectsWithTag ==
    \E tag \in QueryTags :
        LET w == SceneDestroyGameObjectsWithTag(World, tag)
        IN  /\ heap' = w.heap
            /\ scene' = w.scene
            /\ ownedChanged' = OwnedChangedNow(w.scene.objects)
            /\ UNCHANGED <<nextId, nextComp>>

DestroyAllGameObjects ==
    LET w == SceneDestroyAllGameObjects(World)
    IN  /\ heap' = w.heap
        /\ scene' = w.scene
        /\ ownedChanged' = OwnedChangedNow(w.scene.objects)
        /\ UNCHANGED <<nextId, nextComp>>

\* GameObject::SetTag on an owned entity
SetTag ==
    \E ptr \in Owned, tag \in Tags :
        /\ heap' = [heap EXCEPT ![ptr] = GameObjectSetTag(@, tag)]
        /\ UNCHANGED <<scene, nextId, nextComp, ownedChanged>>

\* GameObject::SetActive on an owned entity
SetActiveOwned ==
    \E ptr \in Owned, isActive \in BOOLEAN :
        /\ heap' = [heap EXCEPT ![ptr] = GameObjectSetActive(@, isActive).obj]
        /\ UNCHANGED <<scene, nextId, nextComp, ownedChanged>>

\* GameObject::AddComponent<T> on an owned entity
AddComponentOwned ==
    /\ nextComp <= MaxComps
    /\ \E ptr \in Owned, T \in SceneCompTypes :
          LET r == AddComponentT(heap[ptr], T, nextComp)
          IN  /\ heap' = [heap EXCEPT ![ptr] = r.obj]
              /\ nextComp' = IF r.created THEN nextComp + 1 ELSE nextComp
              /\ UNCHANGED <<scene, nextId, ownedChanged>>

GetAllTransforms ==
    /\ scene' = SceneGetAll(heap, scene)
    /\ ownedChanged' = FALSE
    /\ UNCHANGED <<heap, nextId, nextComp>>

GetAllBehaviors ==
    /\ scene' = SceneGetAll(heap, scene)
    /\ ownedChanged' = FALSE
    /\ UNCHANGED <<heap, nextId, nextComp>>

\* ---- the same Scene, with what each call returned ----
SceneOutInit == sceneOut = [op |-> "none", arg |-> NULL, ret |-> NULL, events |-> <<>>, turn |-> 0]

\* what a call leaves in sceneOut; turn tells one call from the next
SceneDid(o, arg, ret, events) ==
    sceneOut' = [op |-> o, arg |-> arg, ret |-> ret, events |-> events, turn |-> 1 - sceneOut.turn]

\* the ids a caller may give: those issued and one never issued
IdArgs == 0..MaxId

OnGameObjectDestroyed ==
    /\ Len(scene.gameObjectDestroyedCallbacks) < MaxListeners
    /\ scene' = SceneOnGameObjectDestroyed(scene)
    /\ SceneDid("OnGameObjectDestroyed", NULL, NULL, <<>>)
    /\ UNCHANGED <<heap, nextId, nextComp, ownedChanged>>

DestroyGameObjectCall ==
    \E ptr \in Addrs \cup {NULL} :
        LET d == SceneDestroyGameObject(World, ptr)
        IN  /\ heap' = d.heap
            /\ scene' = d.scene
            /\ ownedChanged' = OwnedChangedNow(d.scene.objects)
            /\ SceneDid("DestroyGameObject", ptr, d.ret, d.events)
            /\ UNCHANGED <<nextId, nextComp>>

DestroyGameObjectByIdCall ==
    \E id \in IdArgs :
        LET d == SceneDestroyGameObjectById(World, id)
        IN  /\ heap' = d.heap
            /\ scene' = d.scene
            /\ ownedChanged' = OwnedChangedNow(d.scene.objects)
            /\ SceneDid("DestroyGameObjectById", id, d.ret, d.events)
            /\ UNCHANGED <<nextId, nextComp>>

FindGameObjectWithTagCall ==
    \E tag \in QueryTags :
        /\ SceneDid("FindGameObjectWithTag", tag, FindGameObjectWithTag(scene, tag), <<>>)
        /\ UNCHANGED sceneVars

FindGameObjectsWithTagCall ==
    \E tag \in QueryTags :
        /\ SceneDid("FindGameObjectsWithTag", tag, FindGameObjectsWithTag(scene, tag), <<>>)
        /\ UNCHANGED sceneVars

FindGameObjectByIdCall ==
    \E id \in IdArgs :
        /\ SceneDid("FindGameObjectById", id, FindGameObjectById(scene, id), <<>>)
        /\ UNCHANGED sceneVars

(***************************************************************************)
(* SceneManager                                                            *)
(* A Scene object is [name, active]; a Scene pointer is its address, and   *)
(* the address of a removed scene may be given to a later one.             *)
(***************************************************************************)

SceneAddrs == 1..MaxSceneAddr

\* names under which scenes are registered
SceneNames == {"A", "B"}

\* names passed to the operations: the valid ones, the empty name and a
\* name of white space only
NameArgs == SceneNames \cup {"", " "}

\* the callbacks passed to LoadSceneAsync; NULL is the default (no callback)
Callbacks == {1, 2}

\* SceneManager::IsValidSceneName: not empty and not white space only
IsValidSceneName(name) == name # "" /\ name # " "

\* SceneManager() = default
NewSceneManager ==
    [ scenes               |-> EmptyMap,
      sceneObjs            |-> [a \in SceneAddrs |-> NoObject],
      currentScene         |-> NULL,
      currentSceneName     |-> "",
      isTransitioning      |-> FALSE,
      nextSceneName        |-> "",
      transitionCallback   |-> NULL,
      sceneChangeCallbacks |-> <<>> ]

\* SceneManager::HasScene
HasScene(m, name) == MapHas(m.scenes, name)

\* SceneManager::GetScene
GetScene(m, name) == IF MapHas(m.scenes, name) THEN m.scenes[name] ELSE NULL

\* SceneManager::IsTransitioning
IsTransitioning(m) == m.isTransitioning

\* SceneManager::UnloadCurrentScene
SmUnloadCurrentScene(m) ==
    [ (IF m.currentScene # NULL
       THEN [m EXCEPT !.sceneObjs[m.currentScene].active = FALSE]
       ELSE m)
      EXCEPT !.currentScene = NULL, !.currentSceneName = "" ]

\* SceneManager::SwitchToScene
SwitchToScene(m, sceneName) ==
    IF ~MapHas(m.scenes, sceneName)
    THEN m
    ELSE LET target == m.scenes[sceneName]
             off    == IF m.currentScene # NULL
                       THEN [m EXCEPT !.sceneObjs[m.currentScene].active = FALSE]
                       ELSE m
         IN  [off EXCEPT !.currentScene = target,
                         !.currentSceneName = sceneName,
                         !.sceneObjs[target].active = TRUE]

\* SceneManager::TriggerSceneChanged: the listener invocations, in order
TriggerSceneChanged(m, oldScene, newScene) ==
    [ i \in 1..Len(m.sceneChangeCallbacks) |->
        <<m.sceneChangeCallbacks[i], oldScene, newScene>> ]

\* what an operation hands back: the manager afterwards, the result, the
\* transition callbacks invoked and the listener invocations
Outcome(m, ret, cbs, events) ==
    [ m |-> m, ret |-> ret, cbs |-> cbs, events |-> events ]

\* SceneManager::CreateScene, the new Scene placed at address ptr
SmCreateScene(m, sceneName, ptr) ==
    IF ~IsValidSceneName(sceneName)
    THEN Outcome(m, NULL, <<>>, <<>>)
    ELSE IF HasScene(m, sceneName)
    THEN Outcome(m, GetScene(m, sceneName), <<>>, <<>>)
    ELSE Outcome([m EXCEPT !.sceneObjs[ptr] = [name |-> sceneName, active |-> TRUE],
                           !.scenes = MapPut(@, sceneName, ptr)],
                 ptr, <<>>, <<>>)

\* SceneManager::AddScene of the Scene object sc living at address ptr
\* (ptr = NULL: a null unique_ptr)
SmAddScene(m, sceneName, sc, ptr) ==
    IF ptr = NULL \/ ~IsValidSceneName(sceneName)
    THEN Outcome(m, FALSE, <<>>, <<>>)
    ELSE IF HasScene(m, sceneName)
    THEN Outcome(m, FALSE, <<>>, <<>>)
    ELSE Outcome([m EXCEPT !.sceneObjs[ptr] = [sc EXCEPT !.name = sceneName],
                           !.scenes = MapPut(@, sceneName, ptr)],
                 TRUE, <<>>, <<>>)

\* RemoveScene that erases the scene without unloading it
SmRemoveScene_KeepsCurrent(m, sceneName) ==
    IF ~MapHas(m.scenes, sceneName)
    THEN Outcome(m, FALSE, <<>>, <<>>)
    ELSE Outcome([m EXCEPT !.scenes = MapErase(@, sceneName),
                           !.sceneObjs[m.scenes[sceneName]] = NoObject],
                 TRUE, <<>>, <<>>)

\* SceneManager::RemoveScene
SmRemoveScene(m, sceneName) ==
    IF ~MapHas(m.scenes, sceneName)
    THEN Outcome(m, FALSE, <<>>, <<>>)
    ELSE LET ptr == m.scenes[sceneName]
             un  == IF m.currentScene = ptr THEN SmUnloadCurrentScene(m) ELSE m
         IN  Outcome([un EXCEPT !.scenes = MapErase(@, sceneName),
                                !.sceneObjs[ptr] = NoObject],
                     TRUE, <<>>, <<>>)

\* SceneManager::RemoveAllScenes
SmRemoveAllScenes(m) ==
    Outcome([SmUnloadCurrentScene(m) EXCEPT
                !.scenes = EmptyMap,
                !.sceneObjs = [a \in SceneAddrs |->
                                 IF \E n \in DOMAIN m.scenes : m.scenes[n] = a
                                 THEN NoObject ELSE m.sceneObjs[a]]],
            NULL, <<>>, <<>>)

\* SceneManager::LoadScene
SmLoadScene(m, sceneName) ==
    IF ~MapHas(m.scenes, sceneName)
    THEN Outcome(m, FALSE, <<>>, <<>>)
    ELSE Outcome(SwitchToScene(m, sceneName), TRUE, <<>>,
                 TriggerSceneChanged(m, m.currentSceneName, sceneName))

\* SceneManager::LoadSceneAsync
SmLoadSceneAsync(m, sceneName, callback) ==
    IF ~HasScene(m, sceneName)
    THEN Outcome(m, FALSE, <<>>, <<>>)
    ELSE IF m.isTransitioning
    THEN Outcome(m, FALSE, <<>>, <<>>)
    ELSE Outcome([m EXCEPT !.isTransitioning = TRUE,
                           !.nextSceneName = sceneName,
                           !.transitionCallback = callback],
                 TRUE, <<>>, <<>>)

\* CompleteTransition that leaves the transition pending
SmCompleteTransition_StaysPending(m) ==
    IF ~m.isTransitioning
    THEN Outcome(m, NULL, <<>>, <<>>)
    ELSE LET switched == SwitchToScene(m, m.nextSceneName)
         IN  Outcome([switched EXCEPT !.transitionCallback = NULL],
                     NULL,
                     IF m.transitionCallback # NULL
                     THEN <<m.transitionCallback>> ELSE <<>>,
                     TriggerSceneChanged(m, m.currentSceneName, m.nextSceneName))

\* SceneManager::CompleteTransition
SmCompleteTransition(m) ==
    IF ~m.isTransitioning
    THEN Outcome(m, NULL, <<>>, <<>>)
    ELSE LET switched == SwitchToScene(m, m.nextSceneName)
         IN  Outcome([switched EXCEPT !.transitionCallback = NULL,
                                      !.isTransitioning = FALSE,
                                      !.nextSceneName = ""],
                     NULL,
                     IF m.transitionCallback # NULL
                     THEN <<m.transitionCallback>> ELSE <<>>,
                     TriggerSceneChanged(m, m.currentSceneName, m.nextSceneName))

\* SceneManager::Update (the entities of the current scene are not part of
\* this state)
SmUpdate(m) ==
    IF m.isTransitioning THEN SmCompleteTransition(m) ELSE Outcome(m, NULL, <<>>, <<>>)

\* SceneManager::OnSceneChanged: the listeners are numbered as registered
SmOnSceneChanged(m) ==
    [m EXCEPT !.sceneChangeCallbacks = Append(@, Len(@) + 1)]

\* the record of an operation
Did(name, o) == [ op |-> name, ret |-> o.ret, cbs |-> o.cbs, events |-> o.events ]

SmInit ==
    /\ sm = NewSceneManager
    /\ smOut = [ op |-> "none", ret |-> NULL, cbs |-> <<>>, events |-> <<>> ]

\* the addresses at which no Scene lives
FreeSceneAddrs == { a \in SceneAddrs : sm.sceneObjs[a] = NoObject }

CreateScene ==
    \E sceneName \in NameArgs, ptr \in SceneAddrs :
        /\ ptr \in FreeSceneAddrs \/ HasScene(sm, sceneName) \/ ~IsValidSceneName(sceneName)
        /\ LET o == SmCreateScene(sm, sceneName, ptr)
           IN  sm' = o.m /\ smOut' = Did("CreateScene", o)

\* AddScene of a Scene constructed elsewhere (under any name, active or
\* not), or of a null pointer
AddScene ==
    \E sceneName \in NameArgs, ptr \in FreeSceneAddrs \cup {NULL},
       builtAs \in SceneNames, isActive \in BOOLEAN :
        LET o == SmAddScene(sm, sceneName, [name |-> builtAs, active |-> isActive], ptr)
        IN  sm' = o.m /\ smOut' = Did("AddScene", o)

RemoveScene ==
    \E sceneName \in NameArgs :
        LET o == SmRemoveScene(sm, sceneName)
        IN  sm' = o.m /\ smOut' = Did("RemoveScene", o)

RemoveAllScenes ==
    LET o == SmRemoveAllScenes(sm)
    IN  sm' = o.m /\ smOut' = Did("RemoveAllScenes", o)

LoadScene ==
    \E sceneName \in NameArgs :
        LET o == SmLoadScene(sm, sceneName)
        IN  sm' = o.m /\ smOut' = Did("LoadScene", o)

LoadSceneAsync ==
    \E sceneName \in NameArgs, callback \in Callbacks \cup {NULL} :
        LET o == SmLoadSceneAsync(sm, sceneName, callback)
        IN  sm' = o.m /\ smOut' = Did("LoadSceneAsync", o)

UnloadCurrentScene ==
    /\ sm' = SmUnloadCurrentScene(sm)
    /\ smOut' = Did("UnloadCurrentScene", Outcome(sm, NULL, <<>>, <<>>))

Update ==
    LET o == SmUpdate(sm)
    IN  sm' = o.m /\ smOut' = Did("Update", o)

CompleteTransition ==
    LET o == SmCompleteTransition(sm)
    IN  sm' = o.m /\ smOut' = Did("CompleteTransition", o)

OnSceneChanged ==
    /\ Len(sm.sceneChangeCallbacks) < MaxListeners
    /\ sm' = SmOnSceneChanged(sm)
    /\ smOut' = Did("OnSceneChanged", Outcome(sm, NULL, <<>>, <<>>))

(***************************************************************************)
(* ThreadPool                                                              *)
(* Every worker runs WorkerLoop; one other thread uses the pool.  The      *)
(* queue is protected by queueMutex; paused and activeTasks are atomics    *)
(* read and written without the mutex, so a step is one critical section   *)
(* split at each access to an atomic.                                      *)
(***************************************************************************)

\* ThreadPool(threads): the number of workers
numThreads == 2

Workers == 1..numThreads

NoTask == [kind |-> "none"]

\* the task given to EnqueueTask
PlainTask == [kind |-> "plain"]

\* the task ProcessBatch enqueues for items[lo .. hi-1]; index is the
\* position of its future
ChunkTask(index, lo, hi) == [kind |-> "chunk", index |-> index, lo |-> lo, hi |-> hi]

NoBatch ==
    [ items |-> <<>>, batchSize |-> 0, i |-> 0, chunks |-> <<>>,
      ready |-> {}, returned |-> FALSE ]

Max2(a, b) == IF a >= b THEN a ELSE b
Min2(a, b) == IF a <= b THEN a ELSE b

\* ThreadPool::CalculateOptimalBatchSize
CalculateOptimalBatchSize(totalItems) ==
    IF totalItems = 0 THEN 1
    ELSE Min2(Max2(Max2(1, totalItems \div (numThreads * 3)), 1), 1000)

\* the positions of WorkerLoop at which the worker holds queueMutex
HoldsLock(w) == wpc[w] \in {"locked", "pausePred", "pauseBlocking", "take"}

LockFree == \A w \in Workers : ~HoldsLock(w)

\* ThreadPool::GetQueuedTaskCount
GetQueuedTaskCount == Len(tasks)

\* ThreadPool::GetActiveTaskCount
GetActiveTaskCount == activeTasks

TpInit ==
    /\ tasks = <<>>
    /\ activeTasks = 0
    /\ paused = FALSE
    /\ wpc = [w \in Workers |-> "idle"]
    /\ wtask = [w \in Workers |-> NoTask]
    /\ wpos = [w \in Workers |-> 0]
    /\ mpc = "ready"
    /\ batch = NoBatch
    /\ calls = <<>>
    /\ nEnq = 0
    /\ nBatch = 0

\* ---- WorkerLoop ----

\* condition.wait(lock, stop || !tasks.empty()) returns with the mutex held
WorkerWait(w) ==
    /\ wpc[w] = "idle"
    /\ LockFree
    /\ tasks # <<>>
    /\ wpc' = [wpc EXCEPT ![w] = "locked"]
    /\ UNCHANGED <<tasks, activeTasks, paused, wtask, wpos, mpc, batch, calls, nEnq, nBatch>>

\* if (paused)
WorkerCheckPaused(w) ==
    /\ wpc[w] = "locked"
    /\ wpc' = [wpc EXCEPT ![w] = IF paused THEN "pausePred" ELSE "take"]
    /\ UNCHANGED <<tasks, activeTasks, paused, wtask, wpos, mpc, batch, calls, nEnq, nBatch>>

\* pauseCondition.wait(lock, !paused || stop): the predicate is evaluated
\* with the mutex held
WorkerPausePredicate(w) ==
    /\ wpc[w] = "pausePred"
    /\ wpc' = [wpc EXCEPT ![w] = IF paused THEN "pauseBlocking" ELSE "take"]
    /\ UNCHANGED <<tasks, activeTasks, paused, wtask, wpos, mpc, batch, calls, nEnq, nBatch>>

\* the worker releases the mutex and blocks on pauseCondition
WorkerPauseBlock(w) ==
    /\ wpc[w] = "pauseBlocking"
    /\ wpc' = [wpc EXCEPT ![w] = "pauseBlocked"]
    /\ UNCHANGED <<tasks, activeTasks, paused, wtask, wpos, mpc, batch, calls, nEnq, nBatch>>

\* a notified worker takes the mutex again and evaluates the predicate
WorkerPauseWake(w) ==
    /\ wpc[w] = "pauseWoken"
    /\ LockFree
    /\ wpc' = [wpc EXCEPT ![w] = "pausePred"]
    /\ UNCHANGED <<tasks, activeTasks, paused, wtask, wpos, mpc, batch, calls, nEnq, nBatch>>

\* if (!tasks.empty()) { task = tasks.front(); tasks.pop(); activeTasks++; }
\* and the mutex is released
WorkerTake(w) ==
    /\ wpc[w] = "take"
    /\ IF tasks # <<>>
       THEN /\ wtask' = [wtask EXCEPT ![w] = Head(tasks)]
            /\ tasks' = Tail(tasks)
            /\ activeTasks' = activeTasks + 1
            /\ wpos' = [wpos EXCEPT ![w] = IF Head(tasks).kind = "chunk"
                                            THEN Head(tasks).lo ELSE 0]
            /\ wpc' = [wpc EXCEPT ![w] = "run"]
       ELSE /\ wpc' = [wpc EXCEPT ![w] = "idle"]
            /\ UNCHANGED <<tasks, activeTasks, wtask, wpos>>
    /\ UNCHANGED <<paused, mpc, batch, calls, nEnq, nBatch>>

\* one iteration of the loop of a chunk task:
\* if (items[j]) processor(items[j]);
WorkerRunItem(w) ==
    /\ wpc[w] = "run"
    /\ wtask[w].kind = "chunk"
    /\ wpos[w] < wtask[w].hi
    /\ calls' = IF batch.items[wpos[w] + 1] # NULL
                THEN [calls EXCEPT ![wpos[w] + 1] = @ + 1]
                ELSE calls
    /\ wpos' = [wpos EXCEPT ![w] = @ + 1]
    /\ UNCHANGED <<tasks, activeTasks, paused, wpc, wtask, mpc, batch, nEnq, nBatch>>

\* task() returns; the future of a chunk task becomes ready
WorkerFinish(w) ==
    /\ wpc[w] = "run"
    /\ wtask[w].kind = "chunk" => wpos[w] >= wtask[w].hi
    /\ batch' = IF wtask[w].kind = "chunk"
                THEN [batch EXCEPT !.ready = @ \cup {wtask[w].index}]
                ELSE batch
    /\ wpc' = [wpc EXCEPT ![w] = "finished"]
    /\ UNCHANGED <<tasks, activeTasks, paused, wtask, wpos, mpc, calls, nEnq, nBatch>>

\* activeTasks--
WorkerDone(w) ==
    /\ wpc[w] = "finished"
    /\ activeTasks' = activeTasks - 1
    /\ wtask' = [wtask EXCEPT ![w] = NoTask]
    /\ wpc' = [wpc EXCEPT ![w] = "idle"]
    /\ UNCHANGED <<tasks, paused, wpos, mpc, batch, calls, nEnq, nBatch>>

\* one step of the worker thread w
WorkerStep(w) ==
    \/ WorkerWait(w)
    \/ WorkerCheckPaused(w)
    \/ WorkerPausePredicate(w)
    \/ WorkerPauseBlock(w)
    \/ WorkerPauseWake(w)
    \/ WorkerTake(w)
    \/ WorkerRunItem(w)
    \/ WorkerFinish(w)
    \/ WorkerDone(w)

WorkerLoop == \E w \in Workers : WorkerStep(w)

\* ---- the thread that uses the pool ----

\* ThreadPool::EnqueueTask
EnqueueTask ==
    /\ mpc = "ready"
    /\ nEnq < MaxEnqueue
    /\ LockFree
    /\ tasks' = Append(tasks, PlainTask)
    /\ nEnq' = nEnq + 1
    /\ UNCHANGED <<activeTasks, paused, wpc, wtask, wpos, mpc, batch, calls, nBatch>>

\* ThreadPool::Pause
Pause ==
    /\ mpc = "ready"
    /\ paused' = TRUE
    /\ UNCHANGED <<tasks, activeTasks, wpc, wtask, wpos, mpc, batch, calls, nEnq, nBatch>>

\* ThreadPool::Resume: paused = false
Resume ==
    /\ mpc = "ready"
    /\ paused' = FALSE
    /\ mpc' = "resumeNotify"
    /\ UNCHANGED <<tasks, activeTasks, wpc, wtask, wpos, batch, calls, nEnq, nBatch>>

\* ThreadPool::Resume: pauseCondition.notify_all()
ResumeNotify ==
    /\ mpc = "resumeNotify"
    /\ wpc' = [w \in Workers |-> IF wpc[w] = "pauseBlocked" THEN "pauseWoken" ELSE wpc[w]]
    /\ mpc' = "ready"
    /\ UNCHANGED <<tasks, activeTasks, paused, wtask, wpos, batch, calls, nEnq, nBatch>>

\* ThreadPool::WaitForCompletion is called
WaitForCompletion ==
    /\ mpc = "ready"
    /\ mpc' = "waitActive"
    /\ UNCHANGED <<tasks, activeTasks, paused, wpc, wtask, wpos, batch, calls, nEnq, nBatch>>

\* the loop condition reads activeTasks; while it is positive the thread
\* sleeps and reads again
WaitReadActive ==
    /\ mpc = "waitActive"
    /\ GetActiveTaskCount = 0
    /\ mpc' = "waitQueued"
    /\ UNCHANGED <<tasks, activeTasks, paused, wpc, wtask, wpos, batch, calls, nEnq, nBatch>>

\* the loop condition reads GetQueuedTaskCount(): the call returns when it
\* is zero, else the thread sleeps and evaluates the condition again
WaitReadQueued ==
    /\ mpc = "waitQueued"
    /\ LockFree
    /\ mpc' = IF GetQueuedTaskCount = 0 THEN "ready" ELSE "waitActive"
    /\ UNCHANGED <<tasks, activeTasks, paused, wpc, wtask, wpos, batch, calls, nEnq, nBatch>>

\* the vectors of at most MaxItems pointers, some of them null
ItemVectors ==
    UNION { [1..n -> {NULL, 1}] : n \in 0..MaxItems }

\* ThreadPool::ProcessBatch up to the submission loop
ProcessBatch ==
    /\ mpc = "ready"
    /\ nBatch < MaxBatches
    /\ \E items \in ItemVectors, batchSize \in 0..MaxBatchSize :
          /\ batch' = [ items     |-> items,
                        batchSize |-> IF batchSize = 0
                                      THEN CalculateOptimalBatchSize(Len(items))
                                      ELSE batchSize,
                        i         |-> 0,
                        chunks    |-> <<>>,
                        ready     |-> {},
                        returned  |-> Len(items) = 0 ]
          /\ calls' = [j \in 1..Len(items) |-> 0]
          /\ mpc' = IF Len(items) = 0 THEN "ready" ELSE "batchSubmit"
    /\ nBatch' = nBatch + 1
    /\ UNCHANGED <<tasks, activeTasks, paused, wpc, wtask, wpos, nEnq>>

\* one iteration of the submission loop: Enqueue of the chunk [i, end)
BatchSubmit ==
    /\ mpc = "batchSubmit"
    /\ IF batch.i < Len(batch.items)
       THEN /\ LockFree
            /\ LET end == Min2(batch.i + batch.batchSize, Len(batch.items))
               IN  /\ tasks' = Append(tasks, ChunkTask(Len(batch.chunks) + 1, batch.i, end))
                   /\ batch' = [batch EXCEPT !.chunks = Append(@, <<batch.i, end>>),
                                             !.i = @ + batch.batchSize]
            /\ mpc' = mpc
       ELSE /\ mpc' = "batchWait"
            /\ UNCHANGED <<tasks, batch>>
    /\ UNCHANGED <<activeTasks, paused, wpc, wtask, wpos, calls, nEnq, nBatch>>

\* ProcessBatch that waits for the first future only
FuturesReady_FirstOnly(b) == 1 \in b.ready

\* every future of the batch is ready
FuturesReady(b) == \A k \in 1..Len(b.chunks) : k \in b.ready

\* for (auto& future : futures) future.wait(); and ProcessBatch returns
BatchWait ==
    /\ mpc = "batchWait"
    /\ FuturesReady(batch)
    /\ batch' = [batch EXCEPT !.returned = TRUE]
    /\ mpc' = "ready"
    /\ UNCHANGED <<tasks, activeTasks, paused, wpc, wtask, wpos, calls, nEnq, nBatch>>

(***************************************************************************)
(* Transform hierarchy                                                     *)
(* A Transform is [parent, children, position, rotation, scale,            *)
(* worldTransformDirty, worldPosition, worldRotation, worldScale]; a       *)
(* Vector3 has one coordinate, its three being treated alike.  A recursion *)
(* that never returns ends the program.                                    *)
(***************************************************************************)

TransformAddrs == 1..MaxTransforms

\* Transform::Transform()
NewTransform ==
    [ parent |-> NULL, children |-> <<>>,
      position |-> 0, rotation |-> 0, scale |-> 1,
      worldTransformDirty |-> TRUE,
      worldPosition |-> 0, worldRotation |-> 0, worldScale |-> 0 ]

LiveTransforms(store) == { t \in TransformAddrs : store[t] # NoObject }

\* Transform::AddChild
TfAddChild(store, p, child) ==
    IF child # NULL /\ child \notin Range(store[p].children)
    THEN [store EXCEPT ![p].children = Append(@, child)]
    ELSE store

\* Transform::RemoveChild
TfRemoveChild(store, p, child) ==
    IF child \in Range(store[p].children)
    THEN [store EXCEPT ![p].children = RemoveAt(@, IndexOf(@, child))]
    ELSE store

\* the transforms reached from those of S through children lists
RECURSIVE Descendants(_, _)
Descendants(store, S) ==
    LET next == S \cup { c \in TransformAddrs :
                            \E x \in S : c \in Range(store[x].children) }
    IN  IF next = S THEN S ELSE Descendants(store, next)

\* the recursion of MarkWorldTransformDirty from t meets a transform again
MarkNeverReturns(store, t) ==
    \E x \in Descendants(store, {t}) :
        x \in Descendants(store, Range(store[x].children))

\* MarkWorldTransformDirty that stops at the transform itself
MarkWorldTransformDirty_SelfOnly(store, t) ==
    [store EXCEPT ![t].worldTransformDirty = TRUE]

\* Transform::MarkWorldTransformDirty, when it returns
MarkWorldTransformDirty(store, t) ==
    [ x \in TransformAddrs |->
        IF x \in Descendants(store, {t})
        THEN [store[x] EXCEPT !.worldTransformDirty = TRUE]
        ELSE store[x] ]

\* SetParent that leaves the transform in the children of its old parent
TfSetParent_KeepsOldLink(store, t, newParent) ==
    IF store[t].parent = newParent
    THEN [ store |-> store, crashed |-> FALSE ]
    ELSE LET set    == [store EXCEPT ![t].parent = newParent]
             linked == IF newParent # NULL THEN TfAddChild(set, newParent, t) ELSE set
         IN  IF MarkNeverReturns(linked, t)
             THEN [ store |-> linked, crashed |-> TRUE ]
             ELSE [ store |-> MarkWorldTransformDirty(linked, t), crashed |-> FALSE ]

\* Transform::SetParent: the transforms afterwards, and whether the call
\* failed to return
TfSetParent(store, t, newParent) ==
    IF store[t].parent = newParent
    THEN [ store |-> store, crashed |-> FALSE ]
    ELSE LET removed == IF store[t].parent # NULL
                        THEN TfRemoveChild(store, store[t].parent, t)
                        ELSE store
             set     == [removed EXCEPT ![t].parent = newParent]
             linked  == IF newParent # NULL THEN TfAddChild(set, newParent, t) ELSE set
         IN  IF MarkNeverReturns(linked, t)
             THEN [ store |-> linked, crashed |-> TRUE ]
             ELSE [ store |-> MarkWorldTransformDirty(linked, t), crashed |-> FALSE ]

\* Transform::~Transform
TfDestroy(store, t) ==
    LET removed == IF store[t].parent # NULL
                   THEN TfRemoveChild(store, store[t].parent, t)
                   ELSE store
    IN  [ x \in TransformAddrs |->
            IF x = t THEN NoObject
            ELSE IF x \in Range(store[t].children)
                 THEN [removed[x] EXCEPT !.parent = NULL]
                 ELSE removed[x] ]

\* Transform::SetPosition
TfSetPosition(store, t, pos) ==
    MarkWorldTransformDirty([store EXCEPT ![t].position = pos], t)

\* Transform::Translate
TfTranslate(store, t, translation) ==
    MarkWorldTransformDirty([store EXCEPT ![t].position = @ + translation], t)

\* Transform::SetRotation
TfSetRotation(store, t, rot) ==
    MarkWorldTransformDirty([store EXCEPT ![t].rotation = rot], t)

\* Transform::Rotate
TfRotate(store, t, rot) ==
    MarkWorldTransformDirty([store EXCEPT ![t].rotation = @ + rot], t)

\* Transform::SetScale
TfSetScale(store, t, scl) ==
    MarkWorldTransformDirty([store EXCEPT ![t].scale = scl], t)

\* Transform::UpdateWorldTransform, in a hierarchy without a cycle
RECURSIVE UpdateWorldTransform(_, _)
UpdateWorldTransform(store, t) ==
    IF ~store[t].worldTransformDirty THEN store
    ELSE LET p  == store[t].parent
             up == IF p # NULL THEN UpdateWorldTransform(store, p) ELSE store
         IN  [up EXCEPT ![t] =
                 [@ EXCEPT !.worldPosition = IF p # NULL THEN up[p].worldPosition + up[t].position
                                             ELSE up[t].position,
                           !.worldRotation = IF p # NULL THEN up[p].worldRotation + up[t].rotation
                                             ELSE up[t].rotation,
                           !.worldScale = IF p # NULL THEN up[p].worldScale * up[t].scale
                                          ELSE up[t].scale,
                           !.worldTransformDirty = FALSE]]

\* GetWorldPosition that returns the cached value as it is
TfGetWorldPosition_NoUpdate(store, t) ==
    [store |-> store, ret |-> store[t].worldPosition]

\* Transform::GetWorldPosition
TfGetWorldPosition(store, t) ==
    LET up == UpdateWorldTransform(store, t)
    IN  [store |-> up, ret |-> up[t].worldPosition]

\* Transform::GetWorldRotation
TfGetWorldRotation(store, t) ==
    LET up == UpdateWorldTransform(store, t)
    IN  [store |-> up, ret |-> up[t].worldRotation]

\* Transform::GetWorldScale
TfGetWorldScale(store, t) ==
    LET up == UpdateWorldTransform(store, t)
    IN  [store |-> up, ret |-> up[t].worldScale]

TfInit ==
    /\ tf = [t \in TransformAddrs |-> NoObject]
    /\ tfCrashed = FALSE
    /\ tfOut = [op |-> "none", t |-> NULL, ret |-> 0]
    /\ tfCalls = 0

\* every transform constructed, none linked
TfAllConstructed ==
    /\ tf = [t \in TransformAddrs |-> NewTransform]
    /\ tfCrashed = FALSE
    /\ tfOut = [op |-> "none", t |-> NULL, ret |-> 0]
    /\ tfCalls = 0

\* new Transform at a free address
CreateTransform ==
    /\ ~tfCrashed
    /\ \E t \in TransformAddrs :
          /\ tf[t] = NoObject
          /\ tf' = [tf EXCEPT ![t] = NewTransform]
          /\ tfOut' = [op |-> "Transform", t |-> t, ret |-> 0]
    /\ UNCHANGED <<tfCrashed, tfCalls>>

DestroyTransform ==
    /\ ~tfCrashed
    /\ \E t \in LiveTransforms(tf) :
          /\ tf' = TfDestroy(tf, t)
          /\ tfOut' = [op |-> "~Transform", t |-> t, ret |-> 0]
    /\ UNCHANGED <<tfCrashed, tfCalls>>

SetParent ==
    /\ ~tfCrashed
    /\ \E t \in LiveTransforms(tf), newParent \in LiveTransforms(tf) \cup {NULL} :
          LET r == TfSetParent(tf, t, newParent)
          IN  /\ tf' = r.store
              /\ tfCrashed' = r.crashed
              /\ tfOut' = [op |-> "SetParent", t |-> t, ret |-> 0]
    /\ UNCHANGED tfCalls

\* the local values the mutators are given
Positions == 0..MaxPos
Scales == 1..(MaxPos + 1)

SetPosition ==
    /\ ~tfCrashed
    /\ tfCalls < MaxTfCalls
    /\ tfCalls' = tfCalls + 1
    /\ \E t \in LiveTransforms(tf), pos \in Positions :
          /\ tf' = TfSetPosition(tf, t, pos)
          /\ tfOut' = [op |-> "SetPosition", t |-> t, ret |-> 0]
    /\ UNCHANGED tfCrashed

Translate ==
    /\ ~tfCrashed
    /\ tfCalls < MaxTfCalls
    /\ tfCalls' = tfCalls + 1
    /\ \E t \in LiveTransforms(tf), translation \in Positions :
          /\ tf[t].position + translation <= MaxPos
          /\ tf' = TfTranslate(tf, t, translation)
          /\ tfOut' = [op |-> "Translate", t |-> t, ret |-> 0]
    /\ UNCHANGED tfCrashed

SetRotation ==
    /\ ~tfCrashed
    /\ tfCalls < MaxTfCalls
    /\ tfCalls' = tfCalls + 1
    /\ \E t \in LiveTransforms(tf), rot \in Positions :
          /\ tf' = TfSetRotation(tf, t, rot)
          /\ tfOut' = [op |-> "SetRotation", t |-> t, ret |-> 0]
    /\ UNCHANGED tfCrashed

Rotate ==
    /\ ~tfCrashed
    /\ tfCalls < MaxTfCalls
    /\ tfCalls' = tfCalls + 1
    /\ \E t \in LiveTransforms(tf), rot \in Positions :
          /\ tf[t].rotation + rot <= MaxPos
          /\ tf' = TfRotate(tf, t, rot)
          /\ tfOut' = [op |-> "Rotate", t |-> t, ret |-> 0]
    /\ UNCHANGED tfCrashed

SetScale ==
    /\ ~tfCrashed
    /\ tfCalls < MaxTfCalls
    /\ tfCalls' = tfCalls + 1
    /\ \E t \in LiveTransforms(tf), scl \in Scales :
          /\ tf' = TfSetScale(tf, t, scl)
          /\ tfOut' = [op |-> "SetScale", t |-> t, ret |-> 0]
    /\ UNCHANGED tfCrashed

GetWorldPosition ==
    /\ ~tfCrashed
    /\ tfCalls < MaxTfCalls
    /\ tfCalls' = tfCalls + 1
    /\ \E t \in LiveTransforms(tf) :
          LET r == TfGetWorldPosition(tf, t)
          IN  /\ tf' = r.store
              /\ tfOut' = [op |-> "GetWorldPosition", t |-> t, ret |-> r.ret]
    /\ UNCHANGED tfCrashed

GetWorldRotation ==
    /\ ~tfCrashed
    /\ tfCalls < MaxTfCalls
    /\ tfCalls' = tfCalls + 1
    /\ \E t \in LiveTransforms(tf) :
          LET r == TfGetWorldRotation(tf, t)
          IN  /\ tf' = r.store
              /\ tfOut' = [op |-> "GetWorldRotation", t |-> t, ret |-> r.ret]
    /\ UNCHANGED tfCrashed

GetWorldScale ==
    /\ ~tfCrashed
    /\ tfCalls < MaxTfCalls
    /\ tfCalls' = tfCalls + 1
    /\ \E t \in LiveTransforms(tf) :
          LET r == TfGetWorldScale(tf, t)
          IN  /\ tf' = r.store
              /\ tfOut' = [op |-> "GetWorldScale", t |-> t, ret |-> r.ret]
    /\ UNCHANGED tfCrashed

(***************************************************************************)
(* Behavior                                                                *)
(* The user hooks Start and OnUpdate are recorded as invoked; what they do *)
(* is user code.                                                           *)
(***************************************************************************)

Behaviors == 1..MaxBehaviors

\* what GetOwner() gives: no owner, an owner without a Transform, an owner
\* with one
Owners == {"none", "bare", "withTransform"}

\* the address of the owner's Transform
OwnerTransform == 1

\* Behavior() = default, on top of Component's active = true
NewBehavior == [ active |-> TRUE, started |-> FALSE, cachedTransform |-> NULL ]

\* Behavior::CacheTransform
CacheTransform(b, owner) ==
    IF owner = "none" THEN b
    ELSE [b EXCEPT !.cachedTransform =
                      IF owner = "withTransform" THEN OwnerTransform ELSE NULL]

\* Behavior::Update: the behavior afterwards and the user hooks invoked
BehaviorUpdate(b, owner) ==
    LET cached == IF b.cachedTransform = NULL THEN CacheTransform(b, owner) ELSE b
        starts == cached.active /\ ~cached.started
    IN  [ obj   |-> [cached EXCEPT !.started = @ \/ starts],
          hooks |-> (IF starts THEN <<"Start">> ELSE <<>>)
                    \o (IF cached.active THEN <<"OnUpdate">> ELSE <<>>) ]

\* OnEnable that forgets that the behavior has started
BehaviorOnEnable_ResetsStarted(b, owner) ==
    CacheTransform([b EXCEPT !.started = FALSE], owner)

\* Behavior::OnEnable
BehaviorOnEnable(b, owner) ==
    IF ~b.started THEN CacheTransform(b, owner) ELSE b

\* Behavior::GetTransform: the behavior afterwards and the pointer returned
BehaviorGetTransform(b, owner) ==
    LET cached == IF b.cachedTransform = NULL THEN CacheTransform(b, owner) ELSE b
    IN  [ obj |-> cached, ret |-> cached.cachedTransform ]

\* what GetComponent<Transform>() of the owner returns after
\* RemoveComponent<Transform>(): the Transform has been told OnDestroy and
\* erased, no other component has been told anything
OwnerRemoveTransform(owner) == IF owner = "withTransform" THEN "bare" ELSE owner

\* Behavior::OnDisable
BehaviorOnDisable(b) == b

\* Behavior::OnDestroy
BehaviorOnDestroy(b) == [b EXCEPT !.cachedTransform = NULL]

\* the number of "Start" entries of a hook sequence
StartsIn(hooks) == Cardinality({ k \in 1..Len(hooks) : hooks[k] = "Start" })

BhInit ==
    /\ bh = [b \in Behaviors |-> NewBehavior]
    /\ bhOwner \in [Behaviors -> Owners]
    /\ bhStarts = [b \in Behaviors |-> 0]
    /\ bhActiveTicks = [b \in Behaviors |-> 0]
    /\ bhLog = [op |-> "none", b |-> NULL, hooks |-> <<>>]

\* the behaviors while nothing operates on them
BhIdle == BhInit /\ bhOwner = [b \in Behaviors |-> "none"]

\* one Update tick of behavior b
BehaviorTick ==
    \E b \in Behaviors :
        /\ bh[b].active => bhActiveTicks[b] < MaxTicks
        /\ LET r == BehaviorUpdate(bh[b], bhOwner[b])
           IN  /\ bh' = [bh EXCEPT ![b] = r.obj]
               /\ bhStarts' = [bhStarts EXCEPT ![b] = @ + StartsIn(r.hooks)]
               /\ bhLog' = [op |-> "Update", b |-> b, hooks |-> r.hooks]
        /\ bhActiveTicks' = [bhActiveTicks EXCEPT ![b] = IF bh[b].active THEN @ + 1 ELSE @]
        /\ UNCHANGED bhOwner

\* Component::SetActive on behavior b
BehaviorSetActive ==
    \E b \in Behaviors, isActive \in BOOLEAN :
        /\ bh' = [bh EXCEPT ![b].active = isActive]
        /\ bhLog' = [op |-> "SetActive", b |-> b, hooks |-> <<>>]
        /\ UNCHANGED <<bhOwner, bhStarts, bhActiveTicks>>

OnEnable ==
    \E b \in Behaviors :
        /\ bh' = [bh EXCEPT ![b] = BehaviorOnEnable(@, bhOwner[b])]
        /\ bhLog' = [op |-> "OnEnable", b |-> b, hooks |-> <<>>]
        /\ UNCHANGED <<bhOwner, bhStarts, bhActiveTicks>>

OnDisable ==
    \E b \in Behaviors :
        /\ bh' = [bh EXCEPT ![b] = BehaviorOnDisable(@)]
        /\ bhLog' = [op |-> "OnDisable", b |-> b, hooks |-> <<>>]
        /\ UNCHANGED <<bhOwner, bhStarts, bhActiveTicks>>

OnDestroy ==
    \E b \in Behaviors :
        /\ bh' = [bh EXCEPT ![b] = BehaviorOnDestroy(@)]
        /\ bhLog' = [op |-> "OnDestroy", b |-> b, hooks |-> <<>>]
        /\ UNCHANGED <<bhOwner, bhStarts, bhActiveTicks>>

\* Behavior::GetTransform on behavior b
GetTransform ==
    \E b \in Behaviors :
        /\ bh' = [bh EXCEPT ![b] = BehaviorGetTransform(@, bhOwner[b]).obj]
        /\ bhLog' = [op |-> "GetTransform", b |-> b, hooks |-> <<>>]
        /\ UNCHANGED <<bhOwner, bhStarts, bhActiveTicks>>

\* GameObject::RemoveComponent<Transform>() on the owner of behavior b
RemoveTransform ==
    \E b \in Behaviors :
        /\ bhOwner[b] = "withTransform"
        /\ bhOwner' = [bhOwner EXCEPT ![b] = OwnerRemoveTransform(@)]
        /\ bhLog' = [op |-> "RemoveTransform", b |-> b, hooks |-> <<>>]
        /\ UNCHANGED <<bh, bhStarts, bhActiveTicks>>

(***************************************************************************)
(* UpdateSystem::FixedUpdate and Engine::UpdateFrame                       *)
(* Time is counted in whole units; the batch over the cached behaviors is  *)
(* taken as a whole (ProcessBatch is modelled with the thread pool).       *)
(***************************************************************************)

\* the fixed intervals 1 / fixedUpdateRate the configuration can give
Intervals == {2, 5}

DeltaTimes == 0..MaxDt

\* the update system belongs to an Engine, whose main loop drives it, or to a
\* caller that invokes it directly
Drivers == {"engine", "caller"}

CachedBehaviors == 1..MaxCached

\* the scene handed to the update system
TheScene == 1

\* UpdateSystem::FixedUpdateBehaviors: the OnFixedUpdate invocations of one
\* tick, per cached behavior
FixedUpdateBehaviors(active) ==
    [b \in CachedBehaviors |-> IF active[b] THEN 1 ELSE 0]

\* the while loop of UpdateSystem::FixedUpdate, from accumulator value acc:
\* the number of ticks and the accumulator it leaves
RECURSIVE FixedUpdateLoop(_, _)
FixedUpdateLoop(acc, interval) ==
    IF acc >= interval
    THEN LET rest == FixedUpdateLoop(acc - interval, interval)
         IN  [ticks |-> rest.ticks + 1, acc |-> rest.acc]
    ELSE [ticks |-> 0, acc |-> acc]

\* FixedUpdate that drops what is left in the accumulator after its ticks
UsFixedUpdate_DropsRemainder(isEnabled, interval, acc, active, sc, dt) ==
    IF ~isEnabled \/ sc = NULL
    THEN [acc |-> acc, ticks |-> 0, calls |-> [b \in CachedBehaviors |-> 0]]
    ELSE LET loop == FixedUpdateLoop(acc + dt, interval)
         IN  [acc   |-> IF loop.ticks > 0 THEN 0 ELSE loop.acc,
              ticks |-> loop.ticks,
              calls |-> [b \in CachedBehaviors |->
                            loop.ticks * FixedUpdateBehaviors(active)[b]]]

\* UpdateSystem::FixedUpdate: the accumulator afterwards, the ticks made and
\* the OnFixedUpdate invocations each cached behavior received
UsFixedUpdate(isEnabled, interval, acc, active, sc, dt) ==
    IF ~isEnabled \/ sc = NULL
    THEN [acc |-> acc, ticks |-> 0, calls |-> [b \in CachedBehaviors |-> 0]]
    ELSE LET loop == FixedUpdateLoop(acc + dt, interval)
         IN  [acc   |-> loop.acc,
              ticks |-> loop.ticks,
              calls |-> [b \in CachedBehaviors |->
                            loop.ticks * FixedUpdateBehaviors(active)[b]]]

\* what an operation leaves in fxOut
FxDid(op, sc, updateDt, lateDt, fixedDt, r) ==
    [ op |-> op, scene |-> sc, enabled |-> enabled,
      interval |-> fixedUpdateInterval, accum |-> fixedUpdateAccumulator,
      updateDt |-> updateDt, lateDt |-> lateDt, dt |-> fixedDt,
      ticks |-> r.ticks, calls |-> r.calls ]

NoFixedUpdate ==
    [acc |-> fixedUpdateAccumulator, ticks |-> 0, calls |-> [b \in CachedBehaviors |-> 0]]

\* Engine::Initialize and ConfigureSystems give the engine and the update
\* system the same fixed interval
FxInit ==
    /\ enabled = TRUE
    /\ fixedUpdateInterval \in Intervals
    /\ fixedDeltaTime = fixedUpdateInterval
    /\ fixedUpdateAccumulator = 0
    /\ fxActive \in [CachedBehaviors -> BOOLEAN]
    /\ fxDriver \in Drivers
    /\ fxFrames = 0
    /\ fxSumDt = 0
    /\ fxTicks = 0
    /\ fxOut = [ op |-> "none", scene |-> NULL, enabled |-> TRUE,
                 interval |-> fixedUpdateInterval, accum |-> 0,
                 updateDt |-> 0, lateDt |-> 0, dt |-> 0,
                 ticks |-> 0, calls |-> [b \in CachedBehaviors |-> 0] ]

\* the update system while nothing drives it
FxIdle ==
    /\ FxInit
    /\ fixedUpdateInterval = 2
    /\ fxActive = [b \in CachedBehaviors |-> TRUE]
    /\ fxDriver = "caller"

\* a caller invokes UpdateSystem::FixedUpdate(scene, dt)
FixedUpdate ==
    \E sc \in {NULL, TheScene}, dt \in DeltaTimes :
        LET r == UsFixedUpdate(enabled, fixedUpdateInterval, fixedUpdateAccumulator,
                               fxActive, sc, dt)
        IN  /\ fxDriver = "caller"
            /\ fixedUpdateAccumulator' = r.acc
            /\ fxOut' = FxDid("FixedUpdate", sc, 0, 0, dt, r)
            /\ UNCHANGED <<enabled, fixedUpdateInterval, fixedDeltaTime, fxActive,
                           fxDriver, fxFrames, fxSumDt, fxTicks>>

\* UpdateSystem::SetEnabled
SetEnabled ==
    \E enable \in BOOLEAN :
        /\ fxDriver = "caller"
        /\ enabled' = enable
        /\ fxOut' = FxDid("SetEnabled", NULL, 0, 0, 0, NoFixedUpdate)
        /\ UNCHANGED <<fixedUpdateInterval, fixedUpdateAccumulator, fixedDeltaTime,
                       fxActive, fxDriver, fxFrames, fxSumDt, fxTicks>>

\* UpdateSystem::SetFixedUpdateRate
SetFixedUpdateRate ==
    \E interval \in Intervals :
        /\ fxDriver = "caller"
        /\ fixedUpdateInterval' = interval
        /\ fxOut' = FxDid("SetFixedUpdateRate", NULL, 0, 0, 0, NoFixedUpdate)
        /\ UNCHANGED <<enabled, fixedUpdateAccumulator, fixedDeltaTime,
                       fxActive, fxDriver, fxFrames, fxSumDt, fxTicks>>

\* one frame of Engine::MainLoop with a current scene: CalculateTiming
\* measures deltaTime, UpdateFrame hands deltaTime to Update and LateUpdate
\* and fixedDeltaTime to FixedUpdate
UpdateFrame ==
    \E deltaTime \in DeltaTimes :
        /\ fxDriver = "engine"
        /\ fxFrames < MaxFrames
        /\ LET r == UsFixedUpdate(enabled, fixedUpdateInterval, fixedUpdateAccumulator,
                                  fxActive, TheScene, fixedDeltaTime)
           IN  /\ fixedUpdateAccumulator' = r.acc
               /\ fxTicks' = fxTicks + r.ticks
               /\ fxOut' = FxDid("UpdateFrame", TheScene, deltaTime, deltaTime,
                                 fixedDeltaTime, r)
        /\ fxFrames' = fxFrames + 1
        /\ fxSumDt' = fxSumDt + deltaTime
        /\ UNCHANGED <<enabled, fixedUpdateInterval, fixedDeltaTime, fxActive, fxDriver>>

(***************************************************************************)
(* UpdateSystem::Update, LateUpdate and FixedUpdate of one frame after the *)
(* other, on the update system's thread pool when useThreading is set.     *)
(* The pool is never paused here, so a worker's take is one step; a hook   *)
(* invocation is one step of the thread that makes it.                     *)
(***************************************************************************)

CachedTransforms == 1..MaxCachedTransforms

\* the ProcessBatch calls of a frame: over the transforms and over the
\* behaviors in Update, over the behaviors in LateUpdate and in FixedUpdate
Batches == {"T", "U", "L", "F"}

\* items.size() of a batch
BatchItems(bt) == IF bt = "T" THEN MaxCachedTransforms ELSE MaxCached

\* the lambdas UpdateMultiThreaded enqueues
OuterTask(bt) == [kind |-> "outer", batch |-> bt, lo |-> 0, hi |-> 0]

\* the chunk task ProcessBatch submits at index i of its submission loop
ChunkAt(bt, i) ==
    [ kind |-> "chunk", batch |-> bt, lo |-> i,
      hi |-> Min2(i + CalculateOptimalBatchSize(BatchItems(bt)), BatchItems(bt)) ]

IdleWorker == [pc |-> "idle", batch |-> "T", pos |-> 0, hi |-> 0]

\* UpdateSystem::UpdateBehaviors, sequential branch: the Update invocations
\* one item receives
UsUpdateBehaviorsItem(isActive) == IF isActive THEN 1 ELSE 0

\* the processor without its IsActive() test
TpUpdateBehaviorsItem_IgnoresActive(isActive) == 1

\* ThreadPool::UpdateBehaviors: the processor handed to ProcessBatch
TpUpdateBehaviorsItem(isActive) == IF isActive THEN 1 ELSE 0

\* UpdateSystem::LateUpdateBehaviors: the OnLateUpdate invocations of one
\* pass, per cached behavior
LateUpdateBehaviors(active) ==
    [b \in CachedBehaviors |-> IF active[b] THEN 1 ELSE 0]

\* the wait that returns once the transform task alone has completed
UpdateFuturesReady_TransformOnly == "T" \in frOuterDone

\* UpdateMultiThreaded: transformFuture.wait(); behaviorFuture.wait();
UpdateFuturesReady == {"T", "U"} \subseteq frOuterDone

FrInit ==
    /\ useThreading \in BOOLEAN
    /\ frPc = "idle"
    /\ frPos = 0
    /\ frQueue = <<>>
    /\ frWorker = [w \in Workers |-> IdleWorker]
    /\ frLeft = [bt \in Batches |-> 0]
    /\ frOuterDone = {}
    /\ frFrame = 0
    /\ frT = [t \in CachedTransforms |-> 0]
    /\ frU = [b \in CachedBehaviors |-> 0]
    /\ frL = [b \in CachedBehaviors |-> 0]
    /\ frF = [b \in CachedBehaviors |-> 0]

\* the update system while no frame runs
FrIdle == FrInit /\ useThreading = TRUE

\* the variables of the fixed step a frame leaves alone
fxRest == <<enabled, fixedUpdateInterval, fixedDeltaTime, fxActive, fxDriver,
            fxFrames, fxSumDt, fxTicks, fxOut>>

frPool == <<frQueue, frWorker, frLeft, frOuterDone>>
frCounts == <<frT, frU, frL, frF>>

\* UpdateSystem::Update: sequential, the two loops; parallel, the first
\* Enqueue of UpdateMultiThreaded
FrameUpdate ==
    /\ frPc = "idle"
    /\ frFrame < MaxPoolFrames
    /\ IF ~enabled
       THEN frPc' = "late" /\ UNCHANGED <<frQueue, frT, frU>>
       ELSE IF useThreading
       THEN /\ frQueue' = Append(frQueue, OuterTask("T"))
            /\ frPc' = "enqueueBehaviors"
            /\ UNCHANGED <<frT, frU>>
       ELSE /\ frT' = [t \in CachedTransforms |-> frT[t] + 1]
            /\ frU' = [b \in CachedBehaviors |->
                          frU[b] + UsUpdateBehaviorsItem(fxActive[b])]
            /\ frPc' = "late"
            /\ UNCHANGED frQueue
    /\ UNCHANGED <<useThreading, frPos, frWorker, frLeft, frOuterDone, frFrame, frL, frF,
                   fixedUpdateAccumulator>>

\* UpdateMultiThreaded: the second Enqueue
FrameEnqueueBehaviors ==
    /\ frPc = "enqueueBehaviors"
    /\ frQueue' = Append(frQueue, OuterTask("U"))
    /\ frPc' = "updateWait"
    /\ UNCHANGED <<useThreading, frPos, frWorker, frLeft, frOuterDone, frFrame, frCounts,
                   fixedUpdateAccumulator>>

\* UpdateMultiThreaded: both futures are ready, Update returns
FrameUpdateWait ==
    /\ frPc = "updateWait"
    /\ UpdateFuturesReady
    /\ frOuterDone' = {}
    /\ frPc' = "late"
    /\ UNCHANGED <<useThreading, frPos, frQueue, frWorker, frLeft, frFrame, frCounts,
                   fixedUpdateAccumulator>>

\* UpdateSystem::LateUpdate: sequential, the loop; parallel, ProcessBatch
\* begins on the main thread
FrameLateUpdate ==
    /\ frPc = "late"
    /\ IF ~enabled
       THEN frPc' = "fixed" /\ UNCHANGED <<frPos, frL>>
       ELSE IF useThreading
       THEN frPc' = "lateSubmit" /\ frPos' = 0 /\ UNCHANGED frL
       ELSE /\ frL' = [b \in CachedBehaviors |-> frL[b] + LateUpdateBehaviors(fxActive)[b]]
            /\ frPc' = "fixed"
            /\ UNCHANGED frPos
    /\ UNCHANGED <<useThreading, frPool, frFrame, frT, frU, frF, fixedUpdateAccumulator>>

\* the batch the main thread is submitting or waiting for
MainBatch == IF frPc \in {"lateSubmit", "lateWait"} THEN "L" ELSE "F"

\* ProcessBatch on the main thread: one turn of the submission loop
FrameSubmit ==
    /\ frPc \in {"lateSubmit", "fixedSubmit"}
    /\ IF frPos < BatchItems(MainBatch)
       THEN /\ frQueue' = Append(frQueue, ChunkAt(MainBatch, frPos))
            /\ frLeft' = [frLeft EXCEPT ![MainBatch] = @ + 1]
            /\ frPos' = frPos + CalculateOptimalBatchSize(BatchItems(MainBatch))
            /\ UNCHANGED frPc
       ELSE /\ frPc' = IF frPc = "lateSubmit" THEN "lateWait" ELSE "fixedWait"
            /\ UNCHANGED <<frQueue, frLeft, frPos>>
    /\ UNCHANGED <<useThreading, frWorker, frOuterDone, frFrame, frCounts,
                   fixedUpdateAccumulator>>

\* ProcessBatch on the main thread: every chunk future is ready; LateUpdate
\* returns, or the FixedUpdate loop subtracts the interval
FrameBatchWait ==
    /\ frPc \in {"lateWait", "fixedWait"}
    /\ frLeft[MainBatch] = 0
    /\ IF frPc = "lateWait"
       THEN frPc' = "fixed" /\ UNCHANGED fixedUpdateAccumulator
       ELSE /\ fixedUpdateAccumulator' = fixedUpdateAccumulator - fixedUpdateInterval
            /\ frPc' = "fixedLoop"
    /\ UNCHANGED <<useThreading, frPos, frPool, frFrame, frCounts>>

\* UpdateSystem::FixedUpdate(scene, fixedDeltaTime): the guard and the
\* addition to the accumulator
FrameFixedUpdate ==
    /\ frPc = "fixed"
    /\ IF ~enabled
       THEN frPc' = "idle" /\ frFrame' = frFrame + 1 /\ UNCHANGED fixedUpdateAccumulator
       ELSE /\ fixedUpdateAccumulator' = fixedUpdateAccumulator + fixedDeltaTime
            /\ frPc' = "fixedLoop"
            /\ UNCHANGED frFrame
    /\ UNCHANGED <<useThreading, frPos, frPool, frCounts>>

\* UpdateSystem::FixedUpdate: the test of the while loop and, sequential,
\* its body; when the loop ends the frame is over
FrameFixedLoop ==
    /\ frPc = "fixedLoop"
    /\ IF fixedUpdateAccumulator >= fixedUpdateInterval
       THEN IF useThreading
            THEN /\ frPc' = "fixedSubmit" /\ frPos' = 0
                 /\ UNCHANGED <<frF, fixedUpdateAccumulator, frFrame>>
            ELSE /\ frF' = [b \in CachedBehaviors |->
                               frF[b] + FixedUpdateBehaviors(fxActive)[b]]
                 /\ fixedUpdateAccumulator' = fixedUpdateAccumulator - fixedUpdateInterval
                 /\ UNCHANGED <<frPc, frPos, frFrame>>
       ELSE /\ frPc' = "idle"
            /\ frFrame' = frFrame + 1
            /\ UNCHANGED <<frPos, frF, fixedUpdateAccumulator>>
    /\ UNCHANGED <<useThreading, frPool, frT, frU, frL>>

\* WorkerLoop: a worker takes the front task; an outer task begins the
\* ProcessBatch of UpdateSystem::UpdateTransforms / UpdateBehaviors
FrameWorkerTake ==
    \E w \in Workers :
        /\ frWorker[w].pc = "idle"
        /\ Len(frQueue) > 0
        /\ LET task == Head(frQueue)
           IN  frWorker' = [frWorker EXCEPT ![w] =
                   IF task.kind = "outer"
                   THEN [pc |-> "submit", batch |-> task.batch, pos |-> 0, hi |-> 0]
                   ELSE [pc |-> "run", batch |-> task.batch, pos |-> task.lo, hi |-> task.hi]]
        /\ frQueue' = Tail(frQueue)
        /\ UNCHANGED <<useThreading, frPc, frPos, frLeft, frOuterDone, frFrame, frCounts,
                       fixedUpdateAccumulator>>

\* the chunk lambda of ProcessBatch: the processor on one item
FrameWorkerItem ==
    \E w \in Workers :
        LET bt == frWorker[w].batch
            item  == frWorker[w].pos + 1
        IN  /\ frWorker[w].pc = "run"
            /\ frWorker[w].pos < frWorker[w].hi
            /\ frT' = IF bt = "T" THEN [frT EXCEPT ![item] = @ + 1] ELSE frT
            /\ frU' = IF bt = "U"
                      THEN [frU EXCEPT ![item] = @ + TpUpdateBehaviorsItem(fxActive[item])]
                      ELSE frU
            /\ frL' = IF bt = "L"
                      THEN [frL EXCEPT ![item] = @ + LateUpdateBehaviors(fxActive)[item]]
                      ELSE frL
            /\ frF' = IF bt = "F"
                      THEN [frF EXCEPT ![item] = @ + FixedUpdateBehaviors(fxActive)[item]]
                      ELSE frF
            /\ frWorker' = [frWorker EXCEPT ![w].pos = @ + 1]
            /\ UNCHANGED <<useThreading, frPc, frPos, frQueue, frLeft, frOuterDone, frFrame,
                           fixedUpdateAccumulator>>

\* the chunk task returns: its future becomes ready
FrameWorkerChunkDone ==
    \E w \in Workers :
        /\ frWorker[w].pc = "run"
        /\ frWorker[w].pos >= frWorker[w].hi
        /\ frLeft' = [frLeft EXCEPT ![frWorker[w].batch] = @ - 1]
        /\ frWorker' = [frWorker EXCEPT ![w] = IdleWorker]
        /\ UNCHANGED <<useThreading, frPc, frPos, frQueue, frOuterDone, frFrame, frCounts,
                       fixedUpdateAccumulator>>

\* ProcessBatch inside an outer task, on the worker that runs it: one turn
\* of the submission loop
FrameWorkerSubmit ==
    \E w \in Workers :
        LET bt == frWorker[w].batch
        IN  /\ frWorker[w].pc = "submit"
            /\ IF frWorker[w].pos < BatchItems(bt)
               THEN /\ frQueue' = Append(frQueue, ChunkAt(bt, frWorker[w].pos))
                    /\ frLeft' = [frLeft EXCEPT ![bt] = @ + 1]
                    /\ frWorker' = [frWorker EXCEPT ![w].pos =
                                       @ + CalculateOptimalBatchSize(BatchItems(bt))]
               ELSE /\ frWorker' = [frWorker EXCEPT ![w].pc = "wait"]
                    /\ UNCHANGED <<frQueue, frLeft>>
            /\ UNCHANGED <<useThreading, frPc, frPos, frOuterDone, frFrame, frCounts,
                           fixedUpdateAccumulator>>

\* ProcessBatch inside an outer task: every chunk future is ready, the
\* outer task returns and its own future becomes ready
FrameWorkerOuterDone ==
    \E w \in Workers :
        /\ frWorker[w].pc = "wait"
        /\ frLeft[frWorker[w].batch] = 0
        /\ frOuterDone' = frOuterDone \cup {frWorker[w].batch}
        /\ frWorker' = [frWorker EXCEPT ![w] = IdleWorker]
        /\ UNCHANGED <<useThreading, frPc, frPos, frQueue, frLeft, frFrame, frCounts,
                       fixedUpdateAccumulator>>

(***************************************************************************)
(* ObjectPool<T>::Reserve called by several threads on one pool.  The test *)
(* of the early return reads capacity without poolMutex; the rest of the   *)
(* call runs with the mutex held, so it is one step.                       *)
(***************************************************************************)
Reservers == 1..MaxReservers

RsvInit ==
    /\ \E c \in 0..MaxCapacity : cpool = MakePool(c)
    /\ rpc = [th \in Reservers |-> "idle"]
    /\ rarg = [th \in Reservers |-> 0]
    /\ rcalls = [th \in Reservers |-> 0]
    /\ rsvOut = [th |-> 0, arg |-> 0, made |-> 0, threw |-> FALSE, turn |-> 0]

\* the call of th returns, or leaves by an exception
Reserved(th, made, threw) ==
    rsvOut' = [th |-> th, arg |-> rarg'[th], made |-> made, threw |-> threw,
               turn |-> 1 - rsvOut.turn]

\* if (newCapacity <= capacity) return;
ReserveTest(th) ==
    \E newCapacity \in 0..MaxReserve :
        /\ rpc[th] = "idle"
        /\ rcalls[th] < MaxReserveCalls
        /\ rcalls' = [rcalls EXCEPT ![th] = @ + 1]
        /\ rarg' = [rarg EXCEPT ![th] = newCapacity]
        /\ IF newCapacity <= cpool.capacity
           THEN /\ Reserved(th, 0, FALSE)
                /\ UNCHANGED rpc
           ELSE /\ rpc' = [rpc EXCEPT ![th] = "lock"]
                /\ UNCHANGED rsvOut
        /\ UNCHANGED cpool

\* std::lock_guard lock(poolMutex); and the rest of Reserve
ReserveGrow(th) ==
    /\ rpc[th] = "lock"
    /\ UNCHANGED <<rarg, rcalls>>
    /\ LET r == ReserveLocked(cpool, rarg[th])
       IN  /\ cpool' = r.pool
           /\ Reserved(th, r.made, r.threw)
    /\ rpc' = [rpc EXCEPT ![th] = "idle"]

(***************************************************************************)
(* Engine lifecycle.  One thread calls Initialize and Run and executes     *)
(* MainLoop inside Run; the other threads call Pause, Resume, Stop and     *)
(* Shutdown.  state is atomic, so each load and each store of it is one    *)
(* step; nothing else orders the threads.                                  *)
(***************************************************************************)
EngineThreads == 1..MaxEngineThreads
EngineStates == {"Uninitialized", "Initializing", "Running", "Paused", "Stopping", "Stopped", "Error"}
Configs == 1..MaxConfig
\* the thread that initializes the engine and calls Run
MainThread == 1
\* the threads that pause, resume, stop and shut down the engine
Controllers == EngineThreads \ {MainThread}

\* Initialize that accepts an engine that is not Uninitialized
InitializeAdmits_Always(st) == TRUE

\* Engine::Initialize, its test of the state
InitializeAdmits(st) == st = "Uninitialized"

\* Engine::Run, its test of the state
RunAdmits(st) == st = "Stopped"

\* Engine::Pause, its test of the state
PauseAdmits(st) == st = "Running"

\* Engine::Resume, its test of the state
ResumeAdmits(st) == st = "Paused"

EngInit ==
    /\ state = "Uninitialized"
    /\ config = 0
    /\ initialized = FALSE
    /\ epc = [th \in EngineThreads |-> "idle"]
    /\ inUpdate = {}
    /\ tornFrame = FALSE
    /\ shutdownDone = FALSE
    /\ startCalls = 0
    /\ engOut = [op |-> "none", accepted |-> FALSE, turn |-> 0]

Goto(th, pc) == epc' = [epc EXCEPT ![th] = pc]

Decided(o, ok) == engOut' = [op |-> o, accepted |-> ok, turn |-> 1 - engOut.turn]

\* ---- Engine::Initialize ----
InitializeCall(th) ==
    /\ epc[th] = "idle"
    /\ th = MainThread
    /\ IF InitializeAdmits(state)
       THEN Goto(th, "InitializeSet") /\ Decided("Initialize", TRUE)
       ELSE Decided("Initialize", FALSE) /\ UNCHANGED epc
    /\ UNCHANGED <<state, config, initialized, inUpdate, tornFrame, shutdownDone, startCalls>>

InitializeSet(th) ==
    /\ epc[th] = "InitializeSet"
    /\ state' = "Initializing"
    /\ config' \in Configs
    /\ shutdownDone' = FALSE
    /\ Goto(th, "InitializeSystems")
    /\ UNCHANGED <<initialized, inUpdate, tornFrame, startCalls, engOut>>

\* InitializeSystems: SystemManager::Initialize succeeds or throws
InitializeSystems(th) ==
    /\ epc[th] = "InitializeSystems"
    /\ \/ /\ initialized' = TRUE
          /\ Goto(th, "InitializeDone")
          /\ UNCHANGED state
       \/ /\ state' = "Error"
          /\ Goto(th, "idle")
          /\ UNCHANGED initialized
    /\ UNCHANGED <<config, inUpdate, tornFrame, shutdownDone, startCalls, engOut>>

InitializeDone(th) ==
    /\ epc[th] = "InitializeDone"
    /\ state' = "Stopped"
    /\ Goto(th, "idle")
    /\ UNCHANGED <<config, initialized, inUpdate, tornFrame, shutdownDone, startCalls, engOut>>

EngineInitialize ==
    \E th \in EngineThreads :
        \/ InitializeCall(th)
        \/ InitializeSet(th)
        \/ InitializeSystems(th)
        \/ InitializeDone(th)

\* ---- Engine::Run ----
RunCall(th) ==
    /\ epc[th] = "idle"
    /\ th = MainThread
    /\ startCalls < MaxRuns
    /\ IF RunAdmits(state)
       THEN Goto(th, "RunSet") /\ Decided("Run", TRUE)
       ELSE Decided("Run", FALSE) /\ UNCHANGED epc
    /\ UNCHANGED <<state, config, initialized, inUpdate, tornFrame, shutdownDone, startCalls>>

RunSet(th) ==
    /\ epc[th] = "RunSet"
    /\ state' = "Running"
    /\ Goto(th, "RunStart")
    /\ UNCHANGED <<config, initialized, inUpdate, tornFrame, shutdownDone, startCalls, engOut>>

\* TriggerStartCallbacks
RunStart(th) ==
    /\ epc[th] = "RunStart"
    /\ startCalls' = startCalls + 1
    /\ Goto(th, "LoopTest1")
    /\ UNCHANGED <<state, config, initialized, inUpdate, tornFrame, shutdownDone, engOut>>

EngineRun ==
    \E th \in EngineThreads : RunCall(th) \/ RunSet(th) \/ RunStart(th)

\* ---- Engine::MainLoop ----
EngineIdleStep(th, pc) ==
    /\ Goto(th, pc)
    /\ UNCHANGED <<state, config, initialized, inUpdate, tornFrame, shutdownDone, startCalls, engOut>>

\* while (state.load() == Running || ...
LoopTest1(th) ==
    /\ epc[th] = "LoopTest1"
    /\ EngineIdleStep(th, IF state = "Running" THEN "LoopPaused" ELSE "LoopTest2")

\* ... || state.load() == Paused)
LoopTest2(th) ==
    /\ epc[th] = "LoopTest2"
    /\ EngineIdleStep(th, IF state = "Paused" THEN "LoopPaused" ELSE "LoopExit")

\* if (state.load() == Paused) { sleep; continue; }
LoopPaused(th) ==
    /\ epc[th] = "LoopPaused"
    /\ EngineIdleStep(th, IF state = "Paused" THEN "LoopTest1" ELSE "FrameEnter")

\* UpdateFrame: SystemManager::UpdateSystems enters the update system if there is one
FrameEnter(th) ==
    /\ epc[th] = "FrameEnter"
    /\ IF initialized
       THEN inUpdate' = inUpdate \cup {th} /\ Goto(th, "FrameLeave")
       ELSE UNCHANGED inUpdate /\ Goto(th, "LoopStopCheck")
    /\ UNCHANGED <<state, config, initialized, tornFrame, shutdownDone, startCalls, engOut>>

FrameLeave(th) ==
    /\ epc[th] = "FrameLeave"
    /\ inUpdate' = inUpdate \ {th}
    /\ Goto(th, "LoopStopCheck")
    /\ UNCHANGED <<state, config, initialized, tornFrame, shutdownDone, startCalls, engOut>>

\* if (state.load() == Stopping) break;
LoopStopCheck(th) ==
    /\ epc[th] = "LoopStopCheck"
    /\ EngineIdleStep(th, IF state = "Stopping" THEN "LoopExit" ELSE "LoopTest1")

\* state = Stopped; TriggerStopCallbacks; Run returns
LoopExit(th) ==
    /\ epc[th] = "LoopExit"
    /\ state' = "Stopped"
    /\ Goto(th, "idle")
    /\ UNCHANGED <<config, initialized, inUpdate, tornFrame, shutdownDone, startCalls, engOut>>

MainLoopPcs == {"LoopTest1", "LoopTest2", "LoopPaused", "FrameEnter", "FrameLeave", "LoopStopCheck", "LoopExit"}

MainLoop ==
    \E th \in EngineThreads :
        \/ LoopTest1(th)
        \/ LoopTest2(th)
        \/ LoopPaused(th)
        \/ FrameEnter(th)
        \/ FrameLeave(th)
        \/ LoopStopCheck(th)
        \/ LoopExit(th)

\* ---- Engine::Pause, Engine::Resume ----
PauseCall(th) ==
    /\ epc[th] = "idle"
    /\ th \in Controllers
    /\ IF PauseAdmits(state)
       THEN Goto(th, "PauseSet") /\ Decided("Pause", TRUE)
       ELSE Decided("Pause", FALSE) /\ UNCHANGED epc
    /\ UNCHANGED <<state, config, initialized, inUpdate, tornFrame, shutdownDone, startCalls>>

PauseSet(th) ==
    /\ epc[th] = "PauseSet"
    /\ state' = "Paused"
    /\ Goto(th, "idle")
    /\ UNCHANGED <<config, initialized, inUpdate, tornFrame, shutdownDone, startCalls, engOut>>

EnginePause == \E th \in EngineThreads : PauseCall(th) \/ PauseSet(th)

ResumeCall(th) ==
    /\ epc[th] = "idle"
    /\ th \in Controllers
    /\ IF ResumeAdmits(state)
       THEN Goto(th, "ResumeSet") /\ Decided("Resume", TRUE)
       ELSE Decided("Resume", FALSE) /\ UNCHANGED epc
    /\ UNCHANGED <<state, config, initialized, inUpdate, tornFrame, shutdownDone, startCalls>>

ResumeSet(th) ==
    /\ epc[th] = "ResumeSet"
    /\ state' = "Running"
    /\ Goto(th, "idle")
    /\ UNCHANGED <<config, initialized, inUpdate, tornFrame, shutdownDone, startCalls, engOut>>

EngineResume == \E th \in EngineThreads : ResumeCall(th) \/ ResumeSet(th)

\* ---- Engine::Stop ----
\* if (state.load() == Running || ...
StopCall(th) ==
    /\ epc[th] = "idle"
    /\ th \in Controllers
    /\ IF state = "Running"
       THEN Goto(th, "StopSet") /\ Decided("Stop", TRUE)
       ELSE Goto(th, "StopTest2") /\ UNCHANGED engOut
    /\ UNCHANGED <<state, config, initialized, inUpdate, tornFrame, shutdownDone, startCalls>>

\* ... || state.load() == Paused)
StopTest2(th) ==
    /\ epc[th] = "StopTest2"
    /\ IF state = "Paused"
       THEN Goto(th, "StopSet") /\ Decided("Stop", TRUE)
       ELSE Goto(th, "idle") /\ Decided("Stop", FALSE)
    /\ UNCHANGED <<state, config, initialized, inUpdate, tornFrame, shutdownDone, startCalls>>

StopSet(th) ==
    /\ epc[th] = "StopSet"
    /\ state' = "Stopping"
    /\ Goto(th, "idle")
    /\ UNCHANGED <<config, initialized, inUpdate, tornFrame, shutdownDone, startCalls, engOut>>

EngineStop == \E th \in EngineThreads : StopCall(th) \/ StopTest2(th) \/ StopSet(th)

\* ---- Engine::Shutdown ----
ShutdownCall(th) ==
    /\ epc[th] = "idle"
    /\ th \in Controllers
    /\ IF state = "Uninitialized"
       THEN Decided("Shutdown", FALSE) /\ UNCHANGED epc
       ELSE Goto(th, "ShutdownTest1") /\ Decided("Shutdown", TRUE)
    /\ UNCHANGED <<state, config, initialized, inUpdate, tornFrame, shutdownDone, startCalls>>

ShutdownTest1(th) ==
    /\ epc[th] = "ShutdownTest1"
    /\ EngineIdleStep(th, IF state = "Running" THEN "ShutdownStop1" ELSE "ShutdownTest2")

ShutdownTest2(th) ==
    /\ epc[th] = "ShutdownTest2"
    /\ EngineIdleStep(th, IF state = "Paused" THEN "ShutdownStop1" ELSE "ShutdownSystems")

\* the Stop() inside Shutdown, followed by the 100 ms sleep
ShutdownStop1(th) ==
    /\ epc[th] = "ShutdownStop1"
    /\ EngineIdleStep(th, IF state = "Running" THEN "ShutdownStopSet" ELSE "ShutdownStop2")

ShutdownStop2(th) ==
    /\ epc[th] = "ShutdownStop2"
    /\ EngineIdleStep(th, IF state = "Paused" THEN "ShutdownStopSet" ELSE "ShutdownSystems")

ShutdownStopSet(th) ==
    /\ epc[th] = "ShutdownStopSet"
    /\ state' = "Stopping"
    /\ Goto(th, "ShutdownSystems")
    /\ UNCHANGED <<config, initialized, inUpdate, tornFrame, shutdownDone, startCalls, engOut>>

\* ShutdownSystems: SystemManager::Shutdown destroys the update system
ShutdownSystems(th) ==
    /\ epc[th] = "ShutdownSystems"
    /\ initialized' = FALSE
    /\ tornFrame' = (tornFrame \/ inUpdate # {})
    /\ Goto(th, "ShutdownSet")
    /\ UNCHANGED <<state, config, inUpdate, shutdownDone, startCalls, engOut>>

ShutdownSet(th) ==
    /\ epc[th] = "ShutdownSet"
    /\ state' = "Uninitialized"
    /\ shutdownDone' = TRUE
    /\ Goto(th, "idle")
    /\ UNCHANGED <<config, initialized, inUpdate, tornFrame, startCalls, engOut>>

ShutdownPcs == {"ShutdownTest1", "ShutdownTest2", "ShutdownStop1", "ShutdownStop2", "ShutdownStopSet", "ShutdownSystems", "ShutdownSet"}

EngineShutdown ==
    \E th \in EngineThreads :
        \/ ShutdownCall(th)
        \/ ShutdownTest1(th)
        \/ ShutdownTest2(th)
        \/ ShutdownStop1(th)
        \/ ShutdownStop2(th)
        \/ ShutdownStopSet(th)
        \/ ShutdownSystems(th)
        \/ ShutdownSet(th)

\* ---- Engine::TriggerStopCallbacks ----

\* the step runs the stop listeners: MainLoop after state = Stopped, or
\* Shutdown between its Stop() and ShutdownSystems()
StopListenersRun ==
    \E th \in EngineThreads :
        \/ epc[th] = "LoopExit" /\ epc'[th] = "idle"
        \/ epc[th] = "ShutdownSystems" /\ epc'[th] = "ShutdownSet"

\* TriggerStopCallbacks: every stop listener is invoked once more
TriggerStopCallbacks ==
    IF StopListenersRun
    THEN stopCalls < MaxStops /\ stopCalls' = stopCalls + 1
    ELSE stopCalls' = stopCalls

\* a step of a call that thread th has already begun
EngineContinue(th) ==
    \/ InitializeSet(th) \/ InitializeSystems(th) \/ InitializeDone(th)
    \/ RunSet(th) \/ RunStart(th)
    \/ LoopTest1(th) \/ LoopTest2(th) \/ LoopPaused(th) \/ FrameEnter(th)
    \/ FrameLeave(th) \/ LoopStopCheck(th) \/ LoopExit(th)
    \/ PauseSet(th) \/ ResumeSet(th) \/ StopTest2(th) \/ StopSet(th)
    \/ ShutdownTest1(th) \/ ShutdownTest2(th) \/ ShutdownStop1(th) \/ ShutdownStop2(th)
    \/ ShutdownStopSet(th) \/ ShutdownSystems(th) \/ ShutdownSet(th)

(***************************************************************************)
(* MemoryManager::Allocate and Deallocate.  blocks is the set of blocks    *)
(* posix_memalign has handed out and free has not taken back; a call of    *)
(* Deallocate is given one of these blocks or the null pointer.            *)
(***************************************************************************)
HeapAddrs == 1..MaxHeapAddr
Sizes == 1..MaxSize

NoStats ==
    [ totalAllocated |-> 0, totalDeallocated |-> 0, currentUsage |-> 0,
      peakUsage |-> 0, allocationCount |-> 0, deallocationCount |-> 0 ]

\* MemoryStats::RecordAllocation
RecordAllocation(st, size) ==
    [st EXCEPT !.totalAllocated = @ + size,
               !.currentUsage = @ + size,
               !.allocationCount = @ + 1,
               !.peakUsage = IF st.currentUsage + size > @ THEN st.currentUsage + size ELSE @]

\* MemoryStats::RecordDeallocation
RecordDeallocation(st, size) ==
    [st EXCEPT !.totalDeallocated = @ + size,
               !.currentUsage = @ - size,
               !.deallocationCount = @ + 1]

\* MemoryManager::TrackAllocation
TrackAllocation(sizes, ptr, size) ==
    IF ptr = NULL THEN sizes ELSE MapPut(sizes, ptr, size)

\* UntrackAllocation that records the deallocation and keeps the entry
UntrackAllocation_KeepsEntry(sizes, st, ptr) ==
    IF ptr = NULL \/ ptr \notin DOMAIN sizes
    THEN [sizes |-> sizes, stats |-> st]
    ELSE [sizes |-> sizes, stats |-> RecordDeallocation(st, sizes[ptr])]

\* MemoryManager::UntrackAllocation
UntrackAllocation(sizes, st, ptr) ==
    IF ptr = NULL \/ ptr \notin DOMAIN sizes
    THEN [sizes |-> sizes, stats |-> st]
    ELSE [sizes |-> MapErase(sizes, ptr), stats |-> RecordDeallocation(st, sizes[ptr])]

AllocInit ==
    /\ blocks = <<>>
    /\ allocationSizes = <<>>
    /\ trackAllocations \in BOOLEAN
    /\ stats = NoStats
    /\ allocOut = [op |-> "none", ptr |-> NULL]

\* the manager as constructed: tracking on, nothing allocated
AllocIdle ==
    /\ blocks = <<>>
    /\ allocationSizes = <<>>
    /\ trackAllocations = TRUE
    /\ stats = NoStats
    /\ allocOut = [op |-> "none", ptr |-> NULL]

\* MemoryManager::Allocate: posix_memalign fails and bad_alloc is thrown, or
\* it hands out an unused block
Allocate ==
    /\ stats.allocationCount < MaxAllocs
    /\ \E size \in Sizes :
          \/ /\ allocOut' = [op |-> "Allocate", ptr |-> NULL]
             /\ UNCHANGED <<blocks, allocationSizes, stats>>
          \/ \E ptr \in HeapAddrs \ DOMAIN blocks :
                /\ blocks' = MapPut(blocks, ptr, size)
                /\ allocationSizes' = IF trackAllocations
                                      THEN TrackAllocation(allocationSizes, ptr, size)
                                      ELSE allocationSizes
                /\ stats' = RecordAllocation(stats, size)
                /\ allocOut' = [op |-> "Allocate", ptr |-> ptr]
    /\ UNCHANGED trackAllocations

\* MemoryManager::Deallocate
Deallocate ==
    /\ \E ptr \in DOMAIN blocks \cup {NULL} :
          /\ allocOut' = [op |-> "Deallocate", ptr |-> ptr]
          /\ IF ptr = NULL
             THEN UNCHANGED <<blocks, allocationSizes, stats>>
             ELSE LET r == IF trackAllocations
                           THEN UntrackAllocation(allocationSizes, stats, ptr)
                           ELSE [sizes |-> allocationSizes, stats |-> stats]
                  IN  /\ allocationSizes' = r.sizes
                      /\ stats' = r.stats
                      /\ blocks' = MapErase(blocks, ptr)
    /\ UNCHANGED trackAllocations

\* MemoryManager::SetTrackAllocations
SetTrackAllocations ==
    /\ \E enable \in BOOLEAN :
          /\ trackAllocations' = enable
          /\ allocOut' = [op |-> "SetTrackAllocations", ptr |-> NULL]
    /\ UNCHANGED <<blocks, allocationSizes, stats>>

(***************************************************************************)
(* Specifications                                                          *)
(***************************************************************************)

\* the other subsystems at rest
\* no stop listener has run
StopIdle == stopCalls = 0

\* the pool with no caller of Reserve
RsvIdle == RsvInit /\ cpool = MakePool(0)

PoolIdle == opool = MakePool(0) /\ held = {} /\ ops = <<>>

OutsidePool == UNCHANGED <<memVars, entVars, sceneVars, smVars, tpVars, tfVars, bhVars, fxVars, frVars, engVars, allocVars, scOutVars, rsvVars, engStopVars>>
OutsideMemory == UNCHANGED <<poolVars, entVars, sceneVars, smVars, tpVars, tfVars, bhVars, fxVars, frVars, engVars, allocVars, scOutVars, rsvVars, engStopVars>>
OutsideEntity == UNCHANGED <<poolVars, memVars, sceneVars, smVars, tpVars, tfVars, bhVars, fxVars, frVars, engVars, allocVars, scOutVars, rsvVars, engStopVars>>
OutsideScene == UNCHANGED <<poolVars, memVars, entVars, smVars, tpVars, tfVars, bhVars, fxVars, frVars, engVars, allocVars, scOutVars, rsvVars, engStopVars>>
OutsideSceneManager == UNCHANGED <<poolVars, memVars, entVars, sceneVars, tpVars, tfVars, bhVars, fxVars, frVars, engVars, allocVars, scOutVars, rsvVars, engStopVars>>
OutsideThreadPool == UNCHANGED <<poolVars, memVars, entVars, sceneVars, smVars, tfVars, bhVars, fxVars, frVars, engVars, allocVars, scOutVars, rsvVars, engStopVars>>
OutsideTransform == UNCHANGED <<poolVars, memVars, entVars, sceneVars, smVars, tpVars, bhVars, fxVars, frVars, engVars, allocVars, scOutVars, rsvVars, engStopVars>>
OutsideBehavior == UNCHANGED <<poolVars, memVars, entVars, sceneVars, smVars, tpVars, tfVars, fxVars, frVars, engVars, allocVars, scOutVars, rsvVars, engStopVars>>
OutsideFixedStep == UNCHANGED <<poolVars, memVars, entVars, sceneVars, smVars, tpVars, tfVars, bhVars, frVars, engVars, allocVars, scOutVars, rsvVars, engStopVars>>
OutsideFrame == UNCHANGED <<poolVars, memVars, entVars, sceneVars, smVars, tpVars, tfVars, bhVars, fxRest, engVars, allocVars, scOutVars, rsvVars, engStopVars>>
OutsideEngine == UNCHANGED <<poolVars, memVars, entVars, sceneVars, smVars, tpVars, tfVars, bhVars, fxVars, frVars, allocVars, scOutVars, rsvVars, engStopVars>>
OutsideAllocate == UNCHANGED <<poolVars, memVars, entVars, sceneVars, smVars, tpVars, tfVars, bhVars, fxVars, frVars, engVars, scOutVars, rsvVars, engStopVars>>
OutsideSceneCalls == UNCHANGED <<poolVars, memVars, entVars, smVars, tpVars, tfVars, bhVars, fxVars, frVars, engVars, allocVars, rsvVars, engStopVars>>
OutsideReserve == UNCHANGED <<poolVars, memVars, entVars, sceneVars, smVars, tpVars, tfVars, bhVars, fxVars, frVars, engVars, allocVars, scOutVars, engStopVars>>
OutsideEngineStop == UNCHANGED <<poolVars, memVars, entVars, sceneVars, smVars, tpVars, tfVars, bhVars, fxVars, frVars, allocVars, scOutVars, rsvVars>>

InitPool == PoolInit /\ MemInit /\ EntInit /\ SceneInit /\ SmInit /\ TpInit /\ TfInit /\ BhIdle /\ FxIdle /\ FrIdle /\ EngInit /\ AllocIdle /\ SceneOutInit /\ RsvIdle /\ StopIdle

NextPool ==
    \/ Get /\ OutsidePool
    \/ Return /\ OutsidePool
    \/ Reserve /\ OutsidePool

SpecPool == InitPool /\ [][NextPool]_vars

InitReserve == RsvInit /\ PoolIdle /\ MemInit /\ EntInit /\ SceneInit /\ SmInit /\ TpInit /\ TfInit /\ BhIdle /\ FxIdle /\ FrIdle /\ EngInit /\ AllocIdle /\ SceneOutInit /\ StopIdle

NextReserve ==
    \/ (\E th \in Reservers : ReserveTest(th)) /\ OutsideReserve
    \/ (\E th \in Reservers : ReserveGrow(th)) /\ OutsideReserve

SpecReserve == InitReserve /\ [][NextReserve]_vars

InitMemory == MemInit /\ PoolIdle /\ EntInit /\ SceneInit /\ SmInit /\ TpInit /\ TfInit /\ BhIdle /\ FxIdle /\ FrIdle /\ EngInit /\ AllocIdle /\ SceneOutInit /\ RsvIdle /\ StopIdle

NextMemory ==
    \/ PreallocateGameObjects /\ OutsideMemory
    \/ PreallocateComponents /\ OutsideMemory
    \/ GetFromPool /\ OutsideMemory
    \/ ReturnToPool /\ OutsideMemory
    \/ SetDefaultPoolSize /\ OutsideMemory

SpecMemory == InitMemory /\ [][NextMemory]_vars

InitAllocate == AllocInit /\ MemInit /\ PoolIdle /\ EntInit /\ SceneInit /\ SmInit /\ TpInit /\ TfInit /\ BhIdle /\ FxIdle /\ FrIdle /\ EngInit /\ SceneOutInit /\ RsvIdle /\ StopIdle

NextAllocate ==
    \/ Allocate /\ OutsideAllocate
    \/ Deallocate /\ OutsideAllocate

SpecAllocate == InitAllocate /\ [][NextAllocate]_vars

\* the manager as constructed, with tracking switched on and off between calls
InitTracking == AllocIdle /\ MemInit /\ PoolIdle /\ EntInit /\ SceneInit /\ SmInit /\ TpInit /\ TfInit /\ BhIdle /\ FxIdle /\ FrIdle /\ EngInit /\ SceneOutInit /\ RsvIdle /\ StopIdle

NextTracking ==
    \/ Allocate /\ OutsideAllocate
    \/ Deallocate /\ OutsideAllocate
    \/ SetTrackAllocations /\ OutsideAllocate

SpecTracking == InitTracking /\ [][NextTracking]_vars

InitEntity == EntInit /\ PoolIdle /\ MemInit /\ SceneInit /\ SmInit /\ TpInit /\ TfInit /\ BhIdle /\ FxIdle /\ FrIdle /\ EngInit /\ AllocIdle /\ SceneOutInit /\ RsvIdle /\ StopIdle

NextEntity ==
    \/ AddComponent /\ OutsideEntity
    \/ SetActive /\ OutsideEntity
    \/ ComponentSetActive /\ OutsideEntity
    \/ EnableAllComponents /\ OutsideEntity
    \/ DisableAllComponents /\ OutsideEntity

SpecEntity == InitEntity /\ [][NextEntity]_vars

\* components added and removed; the entity destroyed
NextRemove ==
    \/ AddComponent /\ OutsideEntity
    \/ RemoveComponentOfType /\ OutsideEntity
    \/ RemoveComponentsOfType /\ OutsideEntity
    \/ RemoveComponentByPointer /\ OutsideEntity
    \/ DestroyEntity /\ OutsideEntity

InitRemove == EntPopulated /\ PoolIdle /\ MemInit /\ SceneInit /\ SmInit /\ TpInit /\ TfInit /\ BhIdle /\ FxIdle /\ FrIdle /\ EngInit /\ AllocIdle /\ SceneOutInit /\ RsvIdle /\ StopIdle

SpecRemove == InitRemove /\ [][NextRemove]_vars

InitScene == SceneInit /\ PoolIdle /\ MemInit /\ EntInit /\ SmInit /\ TpInit /\ TfInit /\ BhIdle /\ FxIdle /\ FrIdle /\ EngInit /\ AllocIdle /\ SceneOutInit /\ RsvIdle /\ StopIdle

NextScene ==
    \/ CreateGameObject /\ OutsideScene
    \/ AddGameObject /\ OutsideScene
    \/ AddGameObjectNull /\ OutsideScene
    \/ DestroyGameObject /\ OutsideScene
    \/ DestroyGameObjectById /\ OutsideScene
    \/ DestroyGameObjectsWithTag /\ OutsideScene
    \/ DestroyAllGameObjects /\ OutsideScene
    \/ SetTag /\ OutsideScene
    \/ SetActiveOwned /\ OutsideScene
    \/ AddComponentOwned /\ OutsideScene
    \/ GetAllTransforms /\ OutsideScene
    \/ GetAllBehaviors /\ OutsideScene

SpecScene == InitScene /\ [][NextScene]_vars

\* creation, cache refresh, listener registration, destruction and lookup,
\* each call with its result
NextSceneCalls ==
    \/ CreateGameObject /\ OutsideScene
    \/ GetAllTransforms /\ OutsideScene
    \/ OnGameObjectDestroyed /\ OutsideSceneCalls
    \/ DestroyGameObjectCall /\ OutsideSceneCalls
    \/ DestroyGameObjectByIdCall /\ OutsideSceneCalls
    \/ FindGameObjectWithTagCall /\ OutsideSceneCalls
    \/ FindGameObjectsWithTagCall /\ OutsideSceneCalls
    \/ FindGameObjectByIdCall /\ OutsideSceneCalls

SpecSceneCalls == InitScene /\ [][NextSceneCalls]_vars

InitSceneManager == SmInit /\ PoolIdle /\ MemInit /\ EntInit /\ SceneInit /\ TpInit /\ TfInit /\ BhIdle /\ FxIdle /\ FrIdle /\ EngInit /\ AllocIdle /\ SceneOutInit /\ RsvIdle /\ StopIdle

NextSceneManager ==
    \/ CreateScene /\ OutsideSceneManager
    \/ AddScene /\ OutsideSceneManager
    \/ RemoveScene /\ OutsideSceneManager
    \/ RemoveAllScenes /\ OutsideSceneManager
    \/ LoadScene /\ OutsideSceneManager
    \/ LoadSceneAsync /\ OutsideSceneManager
    \/ UnloadCurrentScene /\ OutsideSceneManager
    \/ Update /\ OutsideSceneManager
    \/ CompleteTransition /\ OutsideSceneManager
    \/ OnSceneChanged /\ OutsideSceneManager

SpecSceneManager == InitSceneManager /\ [][NextSceneManager]_vars

InitThreadPool == TpInit /\ PoolIdle /\ MemInit /\ EntInit /\ SceneInit /\ SmInit /\ TfInit /\ BhIdle /\ FxIdle /\ FrIdle /\ EngInit /\ AllocIdle /\ SceneOutInit /\ RsvIdle /\ StopIdle

NextThreadPool ==
    \/ WorkerLoop /\ OutsideThreadPool
    \/ EnqueueTask /\ OutsideThreadPool
    \/ Pause /\ OutsideThreadPool
    \/ Resume /\ OutsideThreadPool
    \/ ResumeNotify /\ OutsideThreadPool
    \/ WaitForCompletion /\ OutsideThreadPool
    \/ WaitReadActive /\ OutsideThreadPool
    \/ WaitReadQueued /\ OutsideThreadPool
    \/ ProcessBatch /\ OutsideThreadPool
    \/ BatchSubmit /\ OutsideThreadPool
    \/ BatchWait /\ OutsideThreadPool

SpecThreadPool == InitThreadPool /\ [][NextThreadPool]_vars

\* the steps that finish a call the pool's user has begun
CallContinues == ResumeNotify \/ WaitReadActive \/ WaitReadQueued \/ BatchSubmit \/ BatchWait

\* every worker thread, and the calling thread inside a call, is eventually
\* scheduled; the user is not obliged to make further calls
SpecThreadPoolFair == SpecThreadPool /\ WF_vars(CallContinues /\ OutsideThreadPool) /\ \A w \in Workers : WF_vars(WorkerStep(w) /\ OutsideThreadPool)

\* the pool used through ProcessBatch alone, pausing allowed
NextProcessBatch ==
    \/ WorkerLoop /\ OutsideThreadPool
    \/ Pause /\ OutsideThreadPool
    \/ Resume /\ OutsideThreadPool
    \/ ResumeNotify /\ OutsideThreadPool
    \/ ProcessBatch /\ OutsideThreadPool
    \/ BatchSubmit /\ OutsideThreadPool
    \/ BatchWait /\ OutsideThreadPool

SpecProcessBatch == InitThreadPool /\ [][NextProcessBatch]_vars

InitTransform == TfInit /\ PoolIdle /\ MemInit /\ EntInit /\ SceneInit /\ SmInit /\ TpInit /\ BhIdle /\ FxIdle /\ FrIdle /\ EngInit /\ AllocIdle /\ SceneOutInit /\ RsvIdle /\ StopIdle

NextTransform ==
    \/ CreateTransform /\ OutsideTransform
    \/ DestroyTransform /\ OutsideTransform
    \/ SetParent /\ OutsideTransform

SpecTransform == InitTransform /\ [][NextTransform]_vars

InitWorld == TfAllConstructed /\ PoolIdle /\ MemInit /\ EntInit /\ SceneInit /\ SmInit /\ TpInit /\ BhIdle /\ FxIdle /\ FrIdle /\ EngInit /\ AllocIdle /\ SceneOutInit /\ RsvIdle /\ StopIdle

\* parenting, positions and world-position queries
NextWorld ==
    \/ SetParent /\ OutsideTransform
    \/ SetPosition /\ OutsideTransform
    \/ Translate /\ OutsideTransform
    \/ GetWorldPosition /\ OutsideTransform

SpecWorld == InitWorld /\ [][NextWorld]_vars

\* parenting, positions, world-position queries and destruction
NextWorldDestroy ==
    \/ SetParent /\ OutsideTransform
    \/ SetPosition /\ OutsideTransform
    \/ Translate /\ OutsideTransform
    \/ GetWorldPosition /\ OutsideTransform
    \/ DestroyTransform /\ OutsideTransform

SpecWorldDestroy == InitWorld /\ [][NextWorldDestroy]_vars

\* every mutator of the local values and every world query
NextDirty ==
    \/ SetParent /\ OutsideTransform
    \/ SetPosition /\ OutsideTransform
    \/ Translate /\ OutsideTransform
    \/ SetRotation /\ OutsideTransform
    \/ Rotate /\ OutsideTransform
    \/ SetScale /\ OutsideTransform
    \/ GetWorldPosition /\ OutsideTransform
    \/ GetWorldRotation /\ OutsideTransform
    \/ GetWorldScale /\ OutsideTransform

SpecDirty == InitWorld /\ [][NextDirty]_vars

InitEngine == EngInit /\ TfInit /\ PoolIdle /\ MemInit /\ EntInit /\ SceneInit /\ SmInit /\ TpInit /\ BhIdle /\ FxIdle /\ FrIdle /\ AllocIdle /\ SceneOutInit /\ RsvIdle /\ StopIdle

NextEngine ==
    \/ EngineInitialize /\ OutsideEngine
    \/ EngineRun /\ OutsideEngine
    \/ MainLoop /\ OutsideEngine
    \/ EnginePause /\ OutsideEngine
    \/ EngineResume /\ OutsideEngine
    \/ EngineStop /\ OutsideEngine
    \/ EngineShutdown /\ OutsideEngine

SpecEngine == InitEngine /\ [][NextEngine]_vars

\* the engine with its stop listeners counted
NextEngineStop ==
    \/ EngineInitialize /\ TriggerStopCallbacks /\ OutsideEngineStop
    \/ EngineRun /\ TriggerStopCallbacks /\ OutsideEngineStop
    \/ MainLoop /\ TriggerStopCallbacks /\ OutsideEngineStop
    \/ EngineStop /\ TriggerStopCallbacks /\ OutsideEngineStop
    \/ EngineShutdown /\ TriggerStopCallbacks /\ OutsideEngineStop

SpecEngineStop == InitEngine /\ [][NextEngineStop]_vars

\* every thread that has begun a call is scheduled again and again
SpecEngineFair ==
    SpecEngine /\ \A th \in EngineThreads : WF_vars(EngineContinue(th) /\ OutsideEngine)

\* the engine's main loop next to the calls that create and load scenes
NextEngineScenes ==
    \/ EngineInitialize /\ OutsideEngine
    \/ EngineRun /\ OutsideEngine
    \/ MainLoop /\ OutsideEngine
    \/ CreateScene /\ OutsideSceneManager
    \/ LoadScene /\ OutsideSceneManager
    \/ LoadSceneAsync /\ OutsideSceneManager

\* the loop, once entered, keeps running frames
SpecEngineScenes ==
    /\ InitEngine /\ [][NextEngineScenes]_vars
    /\ \A th \in EngineThreads : WF_vars(EngineContinue(th) /\ OutsideEngine)

InitBehavior == BhInit /\ PoolIdle /\ MemInit /\ EntInit /\ SceneInit /\ SmInit /\ TpInit /\ TfInit /\ FxIdle /\ FrIdle /\ EngInit /\ AllocIdle /\ SceneOutInit /\ RsvIdle /\ StopIdle

NextBehavior ==
    \/ BehaviorTick /\ OutsideBehavior
    \/ BehaviorSetActive /\ OutsideBehavior
    \/ OnEnable /\ OutsideBehavior
    \/ OnDisable /\ OutsideBehavior
    \/ OnDestroy /\ OutsideBehavior

SpecBehavior == InitBehavior /\ [][NextBehavior]_vars

\* a behavior whose owner may lose its Transform
NextBehaviorOwner ==
    \/ BehaviorTick /\ OutsideBehavior
    \/ BehaviorSetActive /\ OutsideBehavior
    \/ OnEnable /\ OutsideBehavior
    \/ OnDisable /\ OutsideBehavior
    \/ OnDestroy /\ OutsideBehavior
    \/ GetTransform /\ OutsideBehavior
    \/ RemoveTransform /\ OutsideBehavior

SpecBehaviorOwner == InitBehavior /\ [][NextBehaviorOwner]_vars

InitFixedStep == FxInit /\ PoolIdle /\ MemInit /\ EntInit /\ SceneInit /\ SmInit /\ TpInit /\ TfInit /\ BhIdle /\ FrIdle /\ EngInit /\ AllocIdle /\ SceneOutInit /\ RsvIdle /\ StopIdle

NextFixedStep ==
    \/ FixedUpdate /\ OutsideFixedStep
    \/ SetEnabled /\ OutsideFixedStep
    \/ SetFixedUpdateRate /\ OutsideFixedStep
    \/ UpdateFrame /\ OutsideFixedStep

SpecFixedStep == InitFixedStep /\ [][NextFixedStep]_vars

\* the engine's update system: enabled, driven by frames, the engine's fixed
\* interval its own
FxEngine == FxInit /\ fxDriver = "engine"

InitFrame == FrInit /\ FxEngine /\ PoolIdle /\ MemInit /\ EntInit /\ SceneInit /\ SmInit /\ TpInit /\ TfInit /\ BhIdle /\ EngInit /\ AllocIdle /\ SceneOutInit /\ RsvIdle /\ StopIdle

NextFrame ==
    \/ FrameUpdate /\ OutsideFrame
    \/ FrameEnqueueBehaviors /\ OutsideFrame
    \/ FrameUpdateWait /\ OutsideFrame
    \/ FrameLateUpdate /\ OutsideFrame
    \/ FrameSubmit /\ OutsideFrame
    \/ FrameBatchWait /\ OutsideFrame
    \/ FrameFixedUpdate /\ OutsideFrame
    \/ FrameFixedLoop /\ OutsideFrame
    \/ FrameWorkerTake /\ OutsideFrame
    \/ FrameWorkerItem /\ OutsideFrame
    \/ FrameWorkerChunkDone /\ OutsideFrame
    \/ FrameWorkerSubmit /\ OutsideFrame
    \/ FrameWorkerOuterDone /\ OutsideFrame

SpecFrame == InitFrame /\ [][NextFrame]_vars

\* the steps of the thread that calls Update, LateUpdate and FixedUpdate
FrameMainStep ==
    \/ FrameUpdate \/ FrameEnqueueBehaviors \/ FrameUpdateWait \/ FrameLateUpdate
    \/ FrameSubmit \/ FrameBatchWait \/ FrameFixedUpdate \/ FrameFixedLoop

\* the steps of the pool's worker threads
FrameWorkerStep ==
    \/ FrameWorkerTake \/ FrameWorkerItem \/ FrameWorkerChunkDone
    \/ FrameWorkerSubmit \/ FrameWorkerOuterDone

\* every thread that can take a step is eventually scheduled
SpecFrameFair == SpecFrame /\ WF_vars(FrameMainStep /\ OutsideFrame) /\ WF_vars(FrameWorkerStep /\ OutsideFrame)

(***************************************************************************)
(* Properties of ObjectPool (checked under SpecPool)                       *)
(***************************************************************************)

\* the names of the operations performed so far
OpNames == { ops[i].op : i \in 1..Len(ops) }

\* C1: after any sequence of Get, Return (of a pointer the pool handed out)
\* and Reserve, GetInUse() + GetAvailable() == GetTotalCreated().
C1_Conservation ==
    GetInUse(opool) + GetAvailable(opool) = GetTotalCreated(opool)

\* all three operations have acted, Get has grown the pool past its capacity,
\* and objects are both handed out and free
C1_Witness ==
    /\ OpNames = {"Get", "Return", "Reserve"}
    /\ \E i \in 1..Len(ops) : ops[i].op = "Return" /\ ops[i].arg # NULL
    /\ \E i \in 1..Len(ops) : ops[i].op = "Reserve" /\ ops[i].arg > ops[i].preCapacity
                                 /\ ops[i].preTotal > ops[i].preCapacity
    /\ GetInUse(opool) > 0
    /\ GetAvailable(opool) > 0

\* the step just taken is a Get
GetStep == ops' # ops /\ ops'[Len(ops')].op = "Get"

\* the step just taken is a Return of a non-null pointer
ReturnStep == ops' # ops /\ ops'[Len(ops')].op = "Return" /\ ops'[Len(ops')].arg # NULL

\* Get creates an instance only when the free list is empty, and otherwise
\* hands out the front of the free list; Return puts the pointer at the back
C3_GetRule ==
    /\ GetStep =>
          IF opool.available = <<>>
          THEN /\ GetTotalCreated(opool') = GetTotalCreated(opool) + 1
               /\ \A i \in 1..Len(opool.pool) : opool.pool[i] # ops'[Len(ops')].arg
          ELSE /\ GetTotalCreated(opool') = GetTotalCreated(opool)
               /\ ops'[Len(ops')].arg = Head(opool.available)
               /\ opool'.available = Tail(opool.available)
    /\ ReturnStep => opool'.available = Append(opool.available, ops'[Len(ops')].arg)

\* Pool(capacity=2); a=Get; b=Get; c=Get; Return(b); d=Get has been performed
C3_Witness ==
    /\ Len(ops) = 5
    /\ ops[1].preCapacity = 2 /\ ops[1].preTotal = 2 /\ ops[1].preInUse = 0
    /\ ops[1].op = "Get" /\ ops[2].op = "Get" /\ ops[3].op = "Get"
    /\ ops[4].op = "Return" /\ ops[4].arg = ops[2].arg
    /\ ops[5].op = "Get"

C3_Scenario ==
    C3_Witness =>
        /\ GetTotalCreated(opool) = 3
        /\ GetInUse(opool) = 3
        /\ GetAvailable(opool) = 0
        /\ ops[5].arg = ops[2].arg
        /\ held = {ops[1].arg, ops[3].arg, ops[5].arg}

\* C3: Get creates a new instance (incrementing totalCreated) only when the
\* free list is empty, otherwise it returns a previously created pointer in
\* FIFO order of the free list; on Pool(2) the sequence a=Get, b=Get, c=Get,
\* Return(b), d=Get ends with totalCreated=3, inUse=3, available=0, d==b.
C3_GetFifo == [][C3_GetRule]_vars /\ []C3_Scenario

\* the last two operations are a Get and the Return of the pointer it gave
GetThenReturn ==
    /\ Len(ops) >= 2
    /\ ops[Len(ops) - 1].op = "Get"
    /\ ops[Len(ops)].op = "Return"
    /\ ops[Len(ops)].arg = ops[Len(ops) - 1].arg

\* C4 as stated: Get followed by Return of the pointer just obtained leaves
\* inUse and totalCreated equal to their values before the Get.
C4_Original ==
    GetThenReturn =>
        /\ GetInUse(opool) = ops[Len(ops) - 1].preInUse
        /\ GetTotalCreated(opool) = ops[Len(ops) - 1].preTotal

\* C4 (amended): Get followed by Return of the pointer just obtained leaves
\* inUse equal to its value before the Get; totalCreated is unchanged when
\* the free list was non-empty before the Get and is one greater when it was
\* empty (the Get created an instance).
C4_Amended ==
    GetThenReturn =>
        /\ GetInUse(opool) = ops[Len(ops) - 1].preInUse
        /\ GetTotalCreated(opool) =
              ops[Len(ops) - 1].preTotal
                + (IF ops[Len(ops) - 1].preAvailable = 0 THEN 1 ELSE 0)

\* a Get on an empty free list followed by the Return of its pointer, and
\* earlier a Get that was served from the free list
C4_Witness ==
    /\ GetThenReturn
    /\ ops[Len(ops) - 1].preAvailable = 0
    /\ ops[Len(ops) - 1].preInUse > 0
    /\ ops[1].op = "Get" /\ ops[1].preAvailable > 0

(***************************************************************************)
(* Properties of MemoryManager (checked under SpecMemory)                  *)
(***************************************************************************)

\* C2: after PreallocateComponents(n) or PreallocateGameObjects(n), for any
\* n (also n larger than the capacity of the pool that already exists for
\* the type), the pool holds at least n instances, so while at most n
\* objects are outstanding Get/Return never increase totalCreated.
C2_PrewarmHolds ==
    \A T \in {"Component", "GameObject"} :
        prewarmed[T].n > 0 =>
            /\ typePools[T] # NoPool
            /\ GetTotalCreated(typePools[T]) >= prewarmed[T].n
            /\ prewarmed[T].peak <= prewarmed[T].n =>
                   GetTotalCreated(typePools[T]) = prewarmed[T].total

(***************************************************************************)
(* Properties of GameObject (checked under SpecEntity)                     *)
(***************************************************************************)

\* the components of the entity whose exact type is T
ExactOfType(T) ==
    { go.components[i].cid : i \in { j \in 1..Len(go.components) :
                                        IsExactType(go.components[j].type, T) } }

\* C7: AddComponent<T> deduplicates by exact type; after N >= 1 calls of
\* AddComponent<T> the entity holds exactly one component of exact type T
\* and every call returned that instance.
C7_SingleOfExactType ==
    \A T \in CompTypes :
        addCalls[T] >= 1 =>
            /\ Cardinality(ExactOfType(T)) = 1
            /\ addRets[T] = ExactOfType(T)

\* number of entries of the hook log that are hook h on component c
HookCount(log, h, c) ==
    Cardinality({ i \in 1..Len(log) : log[i] = <<h, c>> })

\* the components of an entity
ComponentsOf(g) == { g.components[i] : i \in 1..Len(g.components) }

\* what a SetActive(b) step must do
C8_Rule ==
    lastAct'.op = "SetActive" =>
        LET b == lastAct'.arg
            h == IF b THEN "OnEnable" ELSE "OnDisable"
        IN  IF b = go.active
            THEN go' = go /\ hookLog' = <<>>
            ELSE /\ go'.active = b
                 /\ go'.components = go.components
                 /\ \A c \in ComponentsOf(go) :
                       HookCount(hookLog', h, c.cid) = (IF c.active THEN 1 ELSE 0)
                 /\ \A i \in 1..Len(hookLog') :
                       /\ hookLog'[i][1] = h
                       /\ \E c \in ComponentsOf(go) : c.cid = hookLog'[i][2]

\* C8: SetActive(b) with b equal to the current flag invokes no hook and
\* changes nothing; when b differs it invokes OnEnable (b) or OnDisable (~b)
\* exactly once on each component whose own flag is true, nothing on the
\* others, and leaves every component's active flag unchanged.
C8_SetActiveFanOut == [][C8_Rule]_vars

\* a real transition has just notified an active component and skipped an
\* inactive one
C8_Witness ==
    /\ lastAct.op = "SetActive"
    /\ go.active = lastAct.arg
    /\ Len(hookLog) >= 1
    /\ \E c \in ComponentsOf(go) : ~c.active
    /\ \E c \in ComponentsOf(go) : c.active

(***************************************************************************)
(* Properties of Scene (checked under SpecScene)                           *)
(***************************************************************************)

\* the owned entities whose current tag is t, in insertion order
OwnedWithTag(t) == SelectSeq(scene.objects, LAMBDA a : heap[a].tag = t)

\* C5: after any sequence of CreateGameObject, AddGameObject, the Destroy
\* operations and SetTag on owned entities, objectsById maps exactly the ids
\* of the owned entities to them, and objectsByTag[t] holds exactly the owned
\* entities whose current tag is t, in insertion order (so
\* FindGameObjectsWithTag(t) returns them and FindGameObjectWithTag(t) the
\* first of them or null).
C5_IndicesExact ==
    /\ DOMAIN scene.objectsById = { heap[a].id : a \in Owned }
    /\ \A a \in Owned : FindGameObjectById(scene, heap[a].id) = a
    /\ \A t \in QueryTags :
          /\ FindGameObjectsWithTag(scene, t) = OwnedWithTag(t)
          /\ FindGameObjectWithTag(scene, t) =
                IF OwnedWithTag(t) = <<>> THEN NULL ELSE OwnedWithTag(t)[1]

\* the components of type T (or derived from it) of the owned active entities
ActiveComponents(T) ==
    { c.cid : c \in { d \in UNION { ComponentsOf(heap[a]) :
                                      a \in { x \in Owned : heap[x].active } } :
                        IsOfType(d.type, T) } }

\* a view holds exactly the components of S, each once
ViewIs(view, S) == Range(view) = S /\ Len(view) = Cardinality(S)

\* both cached views are those of the owned active entities
ViewsExact ==
    /\ ViewIs(scene.cachedTransforms, ActiveComponents("Transform"))
    /\ ViewIs(scene.cachedBehaviors, ActiveComponents("Behavior"))

\* a step that adds or removes an entity marks the caches dirty, and the
\* first cache query after such a step returns exact views
C6_Rule ==
    /\ scene'.objects # scene.objects => scene'.componentCachesDirty
    /\ (ownedChanged /\ ~ownedChanged') => ViewsExact'

\* C6: whenever an entity is added to or removed from a scene the caches are
\* marked dirty, and the next GetAllTransforms()/GetAllBehaviors() call
\* returns views containing exactly the Transform of, and every
\* Behavior-derived component of, each entity owned and active at that call.
C6_CachesRebuilt == [][C6_Rule]_vars

\* the views have been rebuilt after entities were added: they hold a
\* transform and a behavior, and leave out the components of an owned
\* entity that is inactive
C6_Witness ==
    /\ ~scene.componentCachesDirty
    /\ ~ownedChanged
    /\ ViewsExact
    /\ Len(scene.cachedTransforms) + Len(scene.cachedBehaviors) >= 1
    /\ \E a \in Owned : ~heap[a].active /\ heap[a].components # <<>>

(***************************************************************************)
(* Properties of the SceneManager                                          *)
(***************************************************************************)

\* the step is a load request, synchronous or deferred
LoadStep == smOut'.op \in {"LoadScene", "LoadSceneAsync"}

\* a load request made while a transition is pending returns false and
\* changes neither the current scene nor the pending target and callback
C9_Rule ==
    (sm.isTransitioning /\ LoadStep) =>
        /\ smOut'.ret = FALSE
        /\ sm'.currentScene = sm.currentScene
        /\ sm'.currentSceneName = sm.currentSceneName
        /\ sm'.nextSceneName = sm.nextSceneName
        /\ sm'.transitionCallback = sm.transitionCallback
        /\ sm'.isTransitioning

\* C9: while a deferred transition is pending, every load request, LoadScene
\* as well as LoadSceneAsync, is rejected: it returns false and leaves the
\* current scene, the pending target and the pending callback unchanged.
C9_LoadRejectedWhilePending == [][C9_Rule]_vars

\* scene A is registered and current, a transition to another registered
\* scene B is pending with a callback
TransitionReady(A, B) ==
    /\ A # B
    /\ HasScene(sm, A) /\ HasScene(sm, B)
    /\ sm.currentSceneName = A /\ sm.currentScene = sm.scenes[A]
    /\ sm.isTransitioning /\ sm.nextSceneName = B
    /\ sm.transitionCallback # NULL

\* the Update that resolves the transition from A to B
TransitionDone(A, B) ==
    /\ ~sm'.sceneObjs[sm.scenes[A]].active
    /\ sm'.currentScene = sm.scenes[B]
    /\ sm'.currentSceneName = B
    /\ sm'.sceneObjs[sm.scenes[B]].active
    /\ sm'.scenes = sm.scenes
    /\ smOut'.cbs = <<sm.transitionCallback>>
    /\ Len(smOut'.events) = Len(sm.sceneChangeCallbacks)
    /\ \A i \in 1..Len(sm.sceneChangeCallbacks) :
          smOut'.events[i] = <<sm.sceneChangeCallbacks[i], A, B>>
    /\ ~IsTransitioning(sm')

C10_Rule ==
    /\ \A A \in SceneNames, B \in SceneNames :
          (TransitionReady(A, B) /\ smOut'.op = "Update") => TransitionDone(A, B)
    /\ (~sm.isTransitioning /\ smOut'.op = "Update") =>
          smOut'.cbs = <<>> /\ smOut'.events = <<>>

\* C10: with A and B registered, A current and LoadSceneAsync("B", cb)
\* accepted, the next Update deactivates A, makes B current and active,
\* invokes cb exactly once and every scene-changed listener exactly once
\* with (A, B), and leaves the manager idle; an Update of an idle manager
\* invokes neither a callback nor a listener.
C10_DeferredTransition == [][C10_Rule]_vars

\* an Update has just resolved the transition from A to B, with the callback
\* and the listener invoked
C10_Witness ==
    /\ smOut.op = "Update"
    /\ smOut.cbs = <<1>>
    /\ Len(smOut.events) >= 1
    /\ smOut.events[1] = <<1, "A", "B">>
    /\ sm.currentSceneName = "B"
    /\ ~sm.isTransitioning
    /\ HasScene(sm, "A") /\ HasScene(sm, "B")
    /\ ~sm.sceneObjs[sm.scenes["A"]].active
    /\ sm.currentScene = sm.scenes["B"]
    /\ sm.sceneObjs[sm.currentScene].active

\* C11: the current-scene pointer is null with an empty current name, or it
\* is the live scene registered under currentSceneName; it never refers to a
\* removed scene.
C11_CurrentSceneValid ==
    \/ sm.currentScene = NULL /\ sm.currentSceneName = ""
    \/ /\ sm.currentScene # NULL
       /\ HasScene(sm, sm.currentSceneName)
       /\ sm.scenes[sm.currentSceneName] = sm.currentScene
       /\ sm.sceneObjs[sm.currentScene] # NoObject

\* a scene has just been removed, no scene is current any more and another
\* scene is still registered
C11_Witness ==
    /\ smOut.op = "RemoveScene"
    /\ smOut.ret = TRUE
    /\ sm.currentScene = NULL
    /\ sm.currentSceneName = ""
    /\ sm.scenes # EmptyMap
    /\ \E a \in SceneAddrs : sm.sceneObjs[a] = NoObject

(***************************************************************************)
(* Properties of the ThreadPool                                            *)
(***************************************************************************)

\* the chunks submitted so far are contiguous, non-empty and start at 0
ChunksContiguous(b) ==
    /\ Len(b.chunks) >= 1 => b.chunks[1][1] = 0
    /\ \A k \in 1..Len(b.chunks) :
          /\ b.chunks[k][1] < b.chunks[k][2]
          /\ b.chunks[k][2] <= Len(b.items)
          /\ k < Len(b.chunks) => b.chunks[k][2] = b.chunks[k + 1][1]

\* the chunks cover the whole index range
ChunksCover(b) ==
    IF Len(b.items) = 0 THEN b.chunks = <<>>
    ELSE Len(b.chunks) >= 1 /\ b.chunks[Len(b.chunks)][2] = Len(b.items)

\* a worker is inside a chunk task, or one is still queued
ChunkPending ==
    \/ \E w \in Workers : wpc[w] = "run" /\ wtask[w].kind = "chunk"
    \/ \E k \in 1..Len(tasks) : tasks[k].kind = "chunk"

WaitReturns == mpc = "waitQueued" /\ mpc' = "ready"

C13_Rule ==
    WaitReturns =>
        /\ Len(tasks') = 0
        /\ \A w \in Workers : wpc'[w] # "run"

\* C13: WaitForCompletion returns only in a state in which no task is queued
\* and no task is executing on a worker.
C13_WaitReturnsIdle == [][C13_Rule]_vars

C14_Rule ==
    /\ (paused /\ paused') =>
          \A w \in Workers : wpc'[w] = "run" => wpc[w] = "run"
    /\ (paused /\ nEnq' = nEnq + 1) => tasks' = Append(tasks, PlainTask)

\* C14: after Pause() has returned and until Resume() is called no worker
\* starts executing a queued task, while EnqueueTask still adds its task to
\* the queue.
C14_PausedStartsNothing == [][C14_Rule]_vars

(***************************************************************************)
(* Properties of the Transform hierarchy                                   *)
(***************************************************************************)

\* the number of occurrences of x in the sequence q
Occurrences(q, x) == Cardinality({ k \in 1..Len(q) : q[k] = x })

\* C20: for all live transforms c and p, c.parent = p if and only if c
\* occurs in p.children, and then it occurs there exactly once.
C20_ParentChildSymmetry ==
    \A c \in LiveTransforms(tf), p \in LiveTransforms(tf) :
        /\ tf[c].parent = p <=> c \in Range(tf[p].children)
        /\ Occurrences(tf[p].children, c) <= 1

\* a transform has just been destroyed and, of the others, one is the only
\* child of a root
C20_Witness ==
    /\ tfOut.op = "~Transform"
    /\ \E c \in LiveTransforms(tf), p \in LiveTransforms(tf) :
          /\ c # p
          /\ tf[c].parent = p
          /\ tf[p].children = <<c>>
          /\ tf[p].parent = NULL

(***************************************************************************)
(* Properties of Behavior                                                  *)
(***************************************************************************)

\* an Update tick of an inactive behavior invokes nothing; the first tick of
\* an active behavior invokes Start and then OnUpdate; its later ticks
\* invoke OnUpdate only
C19_Rule ==
    \A b \in Behaviors :
        (bhLog'.op = "Update" /\ bhLog'.b = b) =>
            bhLog'.hooks = IF ~bh[b].active THEN <<>>
                           ELSE IF bhActiveTicks[b] = 0 THEN <<"Start", "OnUpdate">>
                           ELSE <<"OnUpdate">>

AfterFixedUpdate == fxOut.op = "FixedUpdate"

\* what the claim gives for the call recorded in fxOut
FloorTicks == (fxOut.accum + fxOut.dt) \div fxOut.interval
ModAccumulator == (fxOut.accum + fxOut.dt) % fxOut.interval

\* C16 as stated: after any call FixedUpdate(scene, dt) made with accumulator
\* value accum, each active cached behavior has received exactly
\* floor((accum+dt)/fixedInterval) OnFixedUpdate invocations and the
\* accumulator is (accum+dt) mod fixedInterval, within [0, fixedInterval).
C16_EveryCall ==
    AfterFixedUpdate =>
        /\ \A b \in CachedBehaviors : fxActive[b] => fxOut.calls[b] = FloorTicks
        /\ fixedUpdateAccumulator = ModAccumulator
        /\ 0 <= fixedUpdateAccumulator /\ fixedUpdateAccumulator < fixedUpdateInterval

\* C16 amended: a call FixedUpdate(scene, dt) with dt >= 0 on an enabled
\* system with a scene gives each active cached behavior exactly
\* floor((accum+dt)/fixedInterval) OnFixedUpdate invocations, an inactive one
\* none, and leaves the accumulator at (accum+dt) mod fixedInterval, within
\* [0, fixedInterval); a call on a disabled system or without a scene
\* invokes nothing and leaves the accumulator as it was.
C16_FixedStep ==
    AfterFixedUpdate =>
        IF fxOut.enabled /\ fxOut.scene # NULL
        THEN /\ \A b \in CachedBehaviors :
                    fxOut.calls[b] = IF fxActive[b] THEN FloorTicks ELSE 0
             /\ fixedUpdateAccumulator = ModAccumulator
             /\ 0 <= fixedUpdateAccumulator /\ fixedUpdateAccumulator < fixedUpdateInterval
        ELSE /\ \A b \in CachedBehaviors : fxOut.calls[b] = 0
             /\ fixedUpdateAccumulator = fxOut.accum

\* a call on an enabled system that started from a non-empty accumulator,
\* made two ticks on an active behavior and left a remainder
C16_Witness ==
    /\ AfterFixedUpdate
    /\ fxOut.enabled /\ fxOut.scene # NULL
    /\ fxOut.accum > 0
    /\ fxOut.ticks = 2
    /\ fixedUpdateAccumulator > 0
    /\ \E b \in CachedBehaviors : fxActive[b] /\ fxOut.calls[b] = 2

\* C17: in every frame of the engine main loop the measured deltaTime is what
\* Update, LateUpdate and FixedUpdate all receive, so that over the frames
\* run so far the number of fixed ticks is floor(sum of the frames'
\* deltaTime / fixedInterval).
C17_MeasuredDeltaDrivesFixedStep ==
    fxOut.op = "UpdateFrame" =>
        /\ fxOut.updateDt = fxOut.lateDt /\ fxOut.lateDt = fxOut.dt
        /\ fxTicks = fxSumDt \div fixedUpdateInterval

(***************************************************************************)
(* Properties of a frame of the update system                              *)
(***************************************************************************)

\* the invocations a hook has made on the cached behaviors once its phase of
\* the current frame is complete
PhaseComplete(count) ==
    \A b \in CachedBehaviors : count[b] = IF fxActive[b] THEN frFrame + 1 ELSE 0

\* an OnLateUpdate begins only when every OnUpdate of the frame has been made
\* and no chunk of the Update batches is left; an OnFixedUpdate begins only
\* when every OnLateUpdate of the frame has been made
C15_Rule ==
    /\ (\E b \in CachedBehaviors : frL'[b] > frL[b]) =>
           /\ PhaseComplete(frU)
           /\ frLeft["U"] = 0 /\ frLeft["T"] = 0
    /\ (\E b \in CachedBehaviors : frF'[b] > frF[b]) =>
           /\ PhaseComplete(frL)
           /\ frLeft["L"] = 0

\* C15: within one frame, sequential or parallel, every OnUpdate of the
\* Update phase has completed before any OnLateUpdate begins, and every
\* OnLateUpdate has completed before any OnFixedUpdate of the frame begins.
C15_PhaseOrder == [][C15_Rule]_vars

\* in parallel mode, in a second frame, one behavior has received its
\* OnLateUpdate and another, active, has not yet
C15_Witness ==
    /\ useThreading
    /\ frFrame >= 1
    /\ frPc = "lateWait"
    /\ PhaseComplete(frU)
    /\ \E b, c \in CachedBehaviors :
           /\ fxActive[b] /\ frL[b] = frFrame + 1
           /\ fxActive[c] /\ frL[c] = frFrame

\* Update of the current frame has returned
UpdateReturned == frPc \notin {"idle", "enqueueBehaviors", "updateWait"}

\* the number of frames whose Update has returned
UpdatesReturned == IF UpdateReturned THEN frFrame + 1 ELSE frFrame

\* C18: in parallel mode as in sequential mode, once Update has returned for
\* k frames every cached transform and every active cached behavior has
\* received exactly k Update invocations and an inactive behavior none;
\* while Update runs a component has received the invocation of this frame
\* or not yet, never a second one.
C18_UpdateOncePerFrame ==
    IF frPc \in {"enqueueBehaviors", "updateWait"}
    THEN /\ \A t \in CachedTransforms : frT[t] \in {frFrame, frFrame + 1}
         /\ \A b \in CachedBehaviors :
                frU[b] \in (IF fxActive[b] THEN {frFrame, frFrame + 1} ELSE {0})
    ELSE /\ \A t \in CachedTransforms : frT[t] = UpdatesReturned
         /\ \A b \in CachedBehaviors :
                frU[b] = IF fxActive[b] THEN UpdatesReturned ELSE 0

\* in parallel mode every frame has run, with an active and an inactive
\* behavior in the scene
C18_Witness ==
    /\ useThreading
    /\ frPc = "idle"
    /\ frFrame = MaxPoolFrames
    /\ \E b, c \in CachedBehaviors :
           /\ fxActive[b] /\ frU[b] = MaxPoolFrames
           /\ ~fxActive[c] /\ frU[c] = 0
    /\ \A t \in CachedTransforms : frT[t] = MaxPoolFrames

(***************************************************************************)
(* Properties of the Transform hierarchy: cycles                           *)
(***************************************************************************)

\* the transforms reached from t by following parent pointers, t excluded
\* unless a cycle leads back to it
RECURSIVE AncestorsFrom(_, _)
AncestorsFrom(store, S) ==
    LET next == S \cup { store[x].parent : x \in { y \in S : store[y] # NoObject /\ store[y].parent # NULL } }
    IN  IF next = S THEN S ELSE AncestorsFrom(store, next)

Ancestors(store, t) ==
    IF store[t].parent = NULL THEN {} ELSE AncestorsFrom(store, {store[t].parent})

\* no live transform is its own ancestor
Acyclic(store) == \A t \in LiveTransforms(store) : t \notin Ancestors(store, t)

\* C21 as stated: after any sequence of SetParent calls the parent graph has
\* no cycle: no transform is its own ancestor.
C21_NoCycle == Acyclic(tf)

\* the SetParent call of this step was given the transform itself or one of
\* its descendants as the new parent
SetParentIntoSubtree ==
    /\ tfOut'.op = "SetParent"
    /\ tf'[tfOut'.t].parent # NULL
    /\ \/ tf'[tfOut'.t].parent = tfOut'.t
       \/ tfOut'.t \in Ancestors(tf, tf'[tfOut'.t].parent)

C21_Rule ==
    (Acyclic(tf) /\ ~SetParentIntoSubtree) => (Acyclic(tf') /\ ~tfCrashed')

\* C21 amended: after any sequence of constructions, destructions and
\* SetParent calls in which no call gives a transform itself or one of its
\* descendants as the new parent, the parent graph has no cycle and every
\* call has returned.
C21_NoCycleUnlessCallerMakesOne == [][C21_Rule]_vars

\* a chain of three transforms, the last SetParent call having returned
C21_Witness ==
    /\ tfOut.op = "SetParent"
    /\ ~tfCrashed
    /\ \E a, b, c \in LiveTransforms(tf) :
          /\ tf[a].parent = NULL
          /\ tf[b].parent = a
          /\ tf[c].parent = b

(***************************************************************************)
(* C22: a call that changes a transform's local position, rotation or      *)
(* scale, or gives it another parent, leaves the transform and every       *)
(* transitive descendant dirty; a dirty transform becomes clean only in a  *)
(* world query on itself or on one of its descendants.                     *)
(***************************************************************************)
ValueMutators == {"SetPosition", "Translate", "SetRotation", "Rotate", "SetScale"}
WorldQueries == {"GetWorldPosition", "GetWorldRotation", "GetWorldScale"}

\* t and the transforms that have t among their ancestors
Subtree(store, t) == {t} \cup { d \in LiveTransforms(store) : t \in Ancestors(store, d) }

AllDirty(store, S) == \A d \in S : store[d].worldTransformDirty

CleanedOnlyByQuery ==
    \A d \in LiveTransforms(tf) :
        (tf[d].worldTransformDirty /\ ~tf'[d].worldTransformDirty)
            => /\ tfOut'.op \in WorldQueries
               /\ d \in {tfOut'.t} \cup Ancestors(tf, tfOut'.t)

\* as stated: every SetParent call leaves the subtree dirty
C22_AnySetParent_Rule ==
    (~tfCrashed' /\ tfOut'.op \in ValueMutators \cup {"SetParent"})
        => AllDirty(tf', Subtree(tf', tfOut'.t))
C22_AnySetParentMarksDirty == [][C22_AnySetParent_Rule]_vars

C22_Rule ==
    /\ (~tfCrashed' /\ tfOut'.op \in ValueMutators)
          => AllDirty(tf', Subtree(tf', tfOut'.t))
    /\ (~tfCrashed' /\ tfOut'.op = "SetParent"
           /\ tf'[tfOut'.t].parent # tf[tfOut'.t].parent)
          => AllDirty(tf', Subtree(tf', tfOut'.t))
    /\ CleanedOnlyByQuery
C22_DirtyUntilQueried == [][C22_Rule]_vars

\* a root whose child and grandchild had been recomputed is given a scale
C22_Witness ==
    /\ tfOut.op = "SetScale"
    /\ ~tfCrashed
    /\ \E b, c \in LiveTransforms(tf) :
          /\ tf[tfOut.t].parent = NULL
          /\ tf[b].parent = tfOut.t
          /\ tf[c].parent = b
          /\ tf[b].worldScale # 0
          /\ tf[c].worldScale # 0
          /\ AllDirty(tf, {tfOut.t, b, c})

(***************************************************************************)
(* C23: in a hierarchy without a cycle, after SetParent, SetPosition and   *)
(* Translate calls, the world position of every transform is the sum of    *)
(* the local positions of the transform and of all its ancestors.          *)
(***************************************************************************)
RECURSIVE SumOfPositions(_, _)
SumOfPositions(store, S) ==
    IF S = {} THEN 0
    ELSE LET x == CHOOSE y \in S : TRUE
         IN  store[x].position + SumOfPositions(store, S \ {x})

WorldSum(store, t) == SumOfPositions(store, {t} \cup Ancestors(store, t))

C23_WorldPositionIsSum ==
    ~tfCrashed =>
        /\ \A t \in LiveTransforms(tf) : TfGetWorldPosition(tf, t).ret = WorldSum(tf, t)
        /\ tfOut.op = "GetWorldPosition" => tfOut.ret = WorldSum(tf, tfOut.t)

\* the grandchild of a moved root is asked for its world position
C23_Witness ==
    /\ tfOut.op = "GetWorldPosition"
    /\ tfOut.ret = 2
    /\ \E a, b \in LiveTransforms(tf) :
          /\ tf[a].parent = NULL
          /\ tf[b].parent = a
          /\ tf[tfOut.t].parent = b
          /\ tf[a].position = 1
          /\ tf[tfOut.t].position = 1

(***************************************************************************)
(* C24: every change of the engine state is one of Uninitialized ->        *)
(* Initializing, Initializing -> Stopped or Error, Stopped -> Running,     *)
(* Running -> Paused or Stopping, Paused -> Running or Stopping, Stopping  *)
(* -> Stopped, or any state -> Uninitialized at the end of Shutdown.       *)
(***************************************************************************)
LegalTransitions ==
    { <<"Uninitialized", "Initializing">>, <<"Initializing", "Stopped">>,
      <<"Initializing", "Error">>, <<"Stopped", "Running">>,
      <<"Running", "Paused">>, <<"Running", "Stopping">>,
      <<"Paused", "Running">>, <<"Paused", "Stopping">>,
      <<"Stopping", "Stopped">> }

EndOfShutdown == \E th \in EngineThreads : epc[th] = "ShutdownSet" /\ epc'[th] = "idle"

C24_Rule ==
    state' # state =>
        \/ <<state, state'>> \in LegalTransitions
        \/ state' = "Uninitialized" /\ EndOfShutdown
C24_LegalTransitionsOnly == [][C24_Rule]_vars

(***************************************************************************)
(* C25: once a Stop call has found the engine Running or Paused, the state *)
(* eventually becomes Stopped, when every thread keeps being scheduled.    *)
(***************************************************************************)
StopAdmitted == \E th \in EngineThreads : epc[th] = "StopSet"

C25_StopLeadsToStopped == StopAdmitted ~> (state = "Stopped")

(***************************************************************************)
(* C26: once a Shutdown has completed and no thread is inside a lifecycle  *)
(* call or the main loop, the state is Uninitialized until the next        *)
(* Initialize; and the update system is never destroyed while a frame is   *)
(* inside it.                                                              *)
(***************************************************************************)
AllThreadsIdle == \A th \in EngineThreads : epc[th] = "idle"

C26_ShutdownIsFinal ==
    /\ (shutdownDone /\ AllThreadsIdle) => state = "Uninitialized"
    /\ ~tornFrame

(***************************************************************************)
(* C27: a lifecycle call whose test finds an incompatible state is         *)
(* rejected: Initialize unless Uninitialized, Run unless Stopped, Pause    *)
(* unless Running, Resume unless Paused, Stop unless Running or Paused.    *)
(* The rejected call returns at once and leaves the state, the             *)
(* configuration, the update system and the start listeners' invocation    *)
(* count as they were.                                                     *)
(***************************************************************************)
EngCompatible(o, st) ==
    CASE o = "Initialize" -> st = "Uninitialized"
      [] o = "Run"        -> st = "Stopped"
      [] o = "Pause"      -> st = "Running"
      [] o = "Resume"     -> st = "Paused"
      [] o = "Stop"       -> st \in {"Running", "Paused"}
      [] OTHER            -> TRUE

C27_Rule ==
    (engOut'.turn # engOut.turn /\ ~EngCompatible(engOut'.op, state))
        => /\ ~engOut'.accepted
           /\ state' = state
           /\ config' = config
           /\ initialized' = initialized
           /\ startCalls' = startCalls
           /\ \A th \in EngineThreads : epc'[th] # epc[th] => epc'[th] = "idle"
C27_IncompatibleCallRejected == [][C27_Rule]_vars

\* a second Initialize has just been refused on an initialized, stopped engine
C27_Witness ==
    /\ engOut.op = "Initialize"
    /\ ~engOut.accepted
    /\ state = "Stopped"
    /\ config \in Configs
    /\ \A th \in EngineThreads : epc[th] = "idle"

(***************************************************************************)
(* C28: with tracking enabled, the tracking map holds exactly the blocks   *)
(* allocated and not yet deallocated, each with the size it was allocated  *)
(* with; it is empty when every allocation has been freed.                 *)
(***************************************************************************)
C28_TrackingMapIsLiveSet ==
    trackAllocations =>
        /\ DOMAIN allocationSizes = DOMAIN blocks
        /\ \A ptr \in DOMAIN blocks : allocationSizes[ptr] = blocks[ptr]
        /\ (stats.allocationCount = stats.deallocationCount) => allocationSizes = <<>>

\* one of two tracked blocks of different sizes has just been freed
C28_Witness ==
    /\ trackAllocations
    /\ allocOut.op = "Deallocate"
    /\ allocOut.ptr # NULL
    /\ stats.allocationCount = 2
    /\ \E ptr \in DOMAIN allocationSizes :
          /\ DOMAIN allocationSizes = {ptr}
          /\ allocationSizes[ptr] = 2
          /\ stats.totalDeallocated = 1

(***************************************************************************)
(* C29: DestroyGameObject given null, an object the scene does not own or  *)
(* an id that is not indexed returns false and changes nothing: not the    *)
(* owned list, the indices, the cache dirty flag, nor any listener's       *)
(* invocation count.  A lookup by a tag or id that is not indexed returns  *)
(* null (the empty list for FindGameObjectsWithTag) and leaves the indices *)
(* as they were.                                                           *)
(***************************************************************************)
SceneUntouched == scene' = scene /\ heap' = heap

C29_Rule ==
    /\ (sceneOut'.turn # sceneOut.turn /\ sceneOut'.op = "DestroyGameObject" /\ sceneOut'.arg \notin Range(scene.objects))
          => (sceneOut'.ret = FALSE /\ sceneOut'.events = <<>> /\ SceneUntouched)
    /\ (sceneOut'.turn # sceneOut.turn /\ sceneOut'.op = "DestroyGameObjectById" /\ sceneOut'.arg \notin DOMAIN scene.objectsById)
          => (sceneOut'.ret = FALSE /\ sceneOut'.events = <<>> /\ SceneUntouched)
    /\ (sceneOut'.turn # sceneOut.turn /\ sceneOut'.op = "FindGameObjectWithTag" /\ sceneOut'.arg \notin DOMAIN scene.objectsByTag)
          => (sceneOut'.ret = NULL /\ SceneUntouched)
    /\ (sceneOut'.turn # sceneOut.turn /\ sceneOut'.op = "FindGameObjectsWithTag" /\ sceneOut'.arg \notin DOMAIN scene.objectsByTag)
          => (sceneOut'.ret = <<>> /\ SceneUntouched)
    /\ (sceneOut'.turn # sceneOut.turn /\ sceneOut'.op = "FindGameObjectById" /\ sceneOut'.arg \notin DOMAIN scene.objectsById)
          => (sceneOut'.ret = NULL /\ SceneUntouched)
C29_FailedCallChangesNothing == [][C29_Rule]_vars

\* a scene with an object, a listener and refreshed caches has just refused
\* to destroy an object it does not own
C29_Witness ==
    /\ sceneOut.op = "DestroyGameObject"
    /\ sceneOut.arg # NULL
    /\ sceneOut.ret = FALSE
    /\ scene.objects # <<>>
    /\ scene.gameObjectDestroyedCallbacks # <<>>
    /\ ~scene.componentCachesDirty

(***************************************************************************)
(* C30: every component that a step destroys, by RemoveComponent<T>,       *)
(* RemoveComponents<T>, RemoveComponent by pointer or the destruction of   *)
(* its entity, is told OnDisable and then OnDestroy in that step.          *)
(***************************************************************************)
CidsOf(g) == { g.components[i].cid : i \in 1..Len(g.components) }

DisabledThenDestroyed(log, cid) ==
    \E i, j \in 1..Len(log) :
        /\ i < j
        /\ log[i] = <<"OnDisable", cid>>
        /\ log[j] = <<"OnDestroy", cid>>

C30_Rule == \A cid \in CidsOf(go) \ CidsOf(go') : DisabledThenDestroyed(hookLog', cid)
C30_DestroyedRunsBothHooks == [][C30_Rule]_vars

(***************************************************************************)
(* C31: UpdateSystem::Update in parallel mode returns: once both outer     *)
(* tasks are enqueued and the caller waits on their futures, both tasks    *)
(* complete and Update goes on to LateUpdate.                              *)
(***************************************************************************)
UpdateWaiting == frPc = "updateWait"

C31_UpdateTerminates == UpdateWaiting ~> (frPc = "late")

(***************************************************************************)
(* C32: a worker does not stay blocked on the pause condition while the    *)
(* pool is not paused: whenever a worker is blocked there and paused is    *)
(* false, the worker leaves the wait or the pool is paused again.          *)
(***************************************************************************)
BlockedUnpaused(w) == wpc[w] = "pauseBlocked" /\ ~paused

C32_ResumeWakesWorkers ==
    \A w \in Workers : BlockedUnpaused(w) ~> (paused \/ wpc[w] # "pauseBlocked")

(***************************************************************************)
(* C33: under concurrent Reserve calls on one pool, capacity never         *)
(* decreases, and a call that returns has created max(0, requested -       *)
(* capacity) instances and leaves capacity at the larger of the two.       *)
(***************************************************************************)
C33_Rule ==
    /\ cpool'.capacity >= cpool.capacity
    /\ rsvOut'.turn # rsvOut.turn =>
          /\ rsvOut'.made = Max2(0, rsvOut'.arg - cpool.capacity)
          /\ cpool'.capacity = Max2(cpool.capacity, rsvOut'.arg)

C33_ConcurrentReserve == [][C33_Rule]_vars

(***************************************************************************)
(* C34: in every state a scene can reach by SetActive and AddComponent on  *)
(* its entities, interleaved with cache queries, GetAllTransforms() and    *)
(* GetAllBehaviors() would return exactly the Transform and Behavior       *)
(* components attached to the owned active entities.                       *)
(***************************************************************************)
C34_QueriesExact ==
    /\ ViewIs(SceneGetAll(heap, scene).cachedTransforms, ActiveComponents("Transform"))
    /\ ViewIs(SceneGetAll(heap, scene).cachedBehaviors, ActiveComponents("Behavior"))

(***************************************************************************)
(* C35: a behavior's cached transform pointer, when it is not null, is the *)
(* Transform attached to the behavior's owner, and GetTransform() returns  *)
(* the attached Transform (null when the owner has none), also after the   *)
(* owner's Transform has been removed.                                     *)
(***************************************************************************)
AttachedTransform(owner) == IF owner = "withTransform" THEN OwnerTransform ELSE NULL

C35_CachedIsAttached ==
    \A b \in Behaviors :
        /\ bh[b].cachedTransform # NULL =>
              bh[b].cachedTransform = AttachedTransform(bhOwner[b])
        /\ BehaviorGetTransform(bh[b], bhOwner[b]).ret = AttachedTransform(bhOwner[b])

(***************************************************************************)
(* C36: a transform whose worldTransformDirty flag is false has a cached   *)
(* world position equal to its local position added to its parent's cached *)
(* world position, or equal to its local position when it has no parent:   *)
(* so also a former child of a destroyed transform.                        *)
(***************************************************************************)
ComposedPosition(store, t) ==
    IF store[t].parent # NULL
    THEN store[store[t].parent].worldPosition + store[t].position
    ELSE store[t].position

C36_CleanIsComposed ==
    ~tfCrashed =>
        \A t \in LiveTransforms(tf) :
            ~tf[t].worldTransformDirty => tf[t].worldPosition = ComposedPosition(tf, t)

(***************************************************************************)
(* C37: when an Update (or CompleteTransition) completes a pending         *)
(* transition, the scene current afterwards is the one named in the        *)
(* accepted LoadSceneAsync request, and every scene-changed listener is    *)
(* given the current scene's name as the new name, whatever registry       *)
(* operations came in between.                                             *)
(***************************************************************************)
C37_Rule ==
    (sm.isTransitioning /\ smOut'.op \in {"Update", "CompleteTransition"}) =>
        /\ sm'.currentSceneName = sm.nextSceneName
        /\ \A i \in 1..Len(smOut'.events) : smOut'.events[i][3] = sm'.currentSceneName

C37_TransitionReachesTarget == [][C37_Rule]_vars

(***************************************************************************)
(* C38: the stop listeners run once for each run of the engine: never more *)
(* often than Run has started the loop, and as often once every call has   *)
(* returned; a Shutdown of an engine that was never run, or whose loop has *)
(* already stopped, does not run them again.                               *)
(***************************************************************************)
C38_StopOncePerRun ==
    /\ stopCalls <= startCalls
    /\ AllThreadsIdle => stopCalls = startCalls

\* a deferred transition is pending while the loop runs frames over a current scene
TransitionPendingInLoop ==
    /\ state = "Running"
    /\ sm.currentScene # NULL
    /\ sm.isTransitioning

\* C39: while the engine is Running with a current scene, a deferred
\* transition that LoadSceneAsync accepted is eventually completed by the
\* main loop: the transition stops being pending
C39_LoopCompletesTransition == TransitionPendingInLoop ~> ~sm.isTransitioning

\* the total size of the blocks handed out and not yet freed
RECURSIVE TotalSize(_, _)
TotalSize(live, ptrs) ==
    IF ptrs = {} THEN 0
    ELSE LET ptr == CHOOSE x \in ptrs : TRUE
         IN  live[ptr] + TotalSize(live, ptrs \ {ptr})

(***************************************************************************)
(* C40: after any sequence of Allocate and Deallocate calls, with tracking *)
(* enabled, disabled or switched in between, currentUsage is the total     *)
(* size of the live blocks, deallocationCount is the number of Deallocate  *)
(* calls on live blocks (every successful Allocate that is no longer live  *)
(* was freed by one), and currentUsage is at most peakUsage.               *)
(***************************************************************************)
C40_StatsMatchLiveBlocks ==
    /\ stats.currentUsage = TotalSize(blocks, DOMAIN blocks)
    /\ stats.deallocationCount = stats.allocationCount - Cardinality(DOMAIN blocks)
    /\ stats.currentUsage <= stats.peakUsage

====
